---- MODULE Spec2Model ----
(***************************************************************************)
(* A model of the text extraction / reinjection core of FamiLator:         *)
(* the encoding table (src/src/encoding.py), the pointer utilities         *)
(* (src/src/pointer_utils.py) and the reinjector with its patch generator  *)
(* (src/src/reinjector.py).                                                *)
(*                                                                         *)
(* Conventions.  A Python str is a sequence of one-character strings, a    *)
(* Python bytes/bytearray is a sequence of integers, and a Python dict is  *)
(* a sequence of <<key, value>> pairs in insertion order (dict iteration   *)
(* order is insertion order, and the code relies on "first match").        *)
(* Positions are 0-based as in the source; At(s, i) is s[i].               *)
(***************************************************************************)
EXTENDS Integers, Sequences, FiniteSets, TLC

VARIABLES
    pc,                  \* position of the operation being run
    table,               \* the EncodingTable object (four dicts)
    line_num,            \* load_table: number of the last line read
    arg,                 \* arguments of the last call of a pure function
    ret,                 \* its result (or the exception it raised)
    original_data,       \* reinject_into_rom: the input image
    rom_data,            \* reinject_into_rom: modified_data, the mutable copy
    translated_strings,  \* TextReinjector.translated_strings
    results,             \* the results dict of the running strategy
    idx,                 \* index of the next element of the running loop
    config,              \* config['text_detection']: method and pointer_table
    pointers,            \* _reinject_pointer_table: the PointerInfo list read
    new_strings_data,    \* _reinject_pointer_table: the payload per pointer
    address_changes,     \* compact_pointer_targets: old address -> new address
    current_address,     \* compact_pointer_targets: where the next payload goes
    placements           \* history: what each loop iteration of
                         \* compact_pointer_targets assigned and wrote

vars == <<pc, table, line_num, arg, ret, original_data, rom_data,
          translated_strings, results, idx, config, pointers,
          new_strings_data, address_changes, current_address, placements>>

-----------------------------------------------------------------------------
(* Sequences, 0-based as in Python *)

At(s, i) == s[i + 1]

\* s[lo:hi] for 0 <= lo, 0 <= hi (Python clamps both ends to len(s))
Slice(s, lo, hi) ==
    LET l == IF lo > Len(s) THEN Len(s) ELSE lo
        h == IF hi > Len(s) THEN Len(s) ELSE hi
    IN  IF h <= l THEN <<>> ELSE SubSeq(s, l + 1, h)

Min2(a, b) == IF a < b THEN a ELSE b

RECURSIVE Flatten(_)
Flatten(ss) == IF ss = <<>> THEN <<>> ELSE Head(ss) \o Flatten(Tail(ss))

SeqsUpTo(S, n) == UNION {[1..k -> S] : k \in 0..n}

\* str.startswith / str.endswith with a one-character argument
StartsWith(s, c) == Len(s) > 0 /\ s[1] = c

\* c in s
Contains(s, c) == \E i \in 1..Len(s) : s[i] = c

\* s.find(c, from): first position >= from holding c, or -1
Find(s, c, from) ==
    IF \E i \in from..(Len(s) - 1) : At(s, i) = c
    THEN CHOOSE i \in from..(Len(s) - 1) :
            At(s, i) = c /\ \A j \in from..(i - 1) : At(s, j) # c
    ELSE -1

\* two-character substring test ("XX" in s)
ContainsPair(s, c) == \E i \in 1..(Len(s) - 1) : s[i] = c /\ s[i + 1] = c

RECURSIVE LStrip(_)
LStrip(s) == IF s # <<>> /\ Head(s) = " " THEN LStrip(Tail(s)) ELSE s

RECURSIVE RStrip(_)
RStrip(s) ==
    IF s # <<>> /\ s[Len(s)] = " " THEN RStrip(SubSeq(s, 1, Len(s) - 1)) ELSE s

Strip(s) == LStrip(RStrip(s))

-----------------------------------------------------------------------------
(* Python dicts in insertion order *)

Has(d, k) == \E i \in 1..Len(d) : d[i][1] = k

Get(d, k) == d[CHOOSE i \in 1..Len(d) : d[i][1] = k][2]

\* d[k] = v: an existing key keeps its place, a new key goes last
Put(d, k, v) ==
    IF Has(d, k)
    THEN [i \in 1..Len(d) |-> IF d[i][1] = k THEN <<k, v>> ELSE d[i]]
    ELSE Append(d, <<k, v>>)

Keys(d) == {d[i][1] : i \in 1..Len(d)}

\* first key, in iteration order, whose value is v ("for k, x in d.items():
\* if x == v: ... break"); only used when HasValue(d, v)
HasValue(d, v) == \E i \in 1..Len(d) : d[i][2] = v
FirstKeyOf(d, v) ==
    d[CHOOSE i \in 1..Len(d) :
        d[i][2] = v /\ \A j \in 1..(i - 1) : d[j][2] # v][1]

-----------------------------------------------------------------------------
(* EncodingTable  (src/src/encoding.py) *)

EmptyTable ==
    [byte_to_char |-> <<>>, char_to_byte |-> <<>>,
     control_codes |-> <<>>, multi_byte_patterns |-> <<>>]

HexDigits == <<"0","1","2","3","4","5","6","7","8","9","A","B","C","D","E","F">>

\* int(s, 16) on a string of hex digits (sign, "0x" and "_" forms are not in
\* the alphabet of the modelled files)
IsHex(s) ==
    LET
        IsHexDigit(c) == \E i \in 1..16 : HexDigits[i] = c
    IN
            s # <<>> /\ \A i \in 1..Len(s) : IsHexDigit(s[i])

END == <<"<","E","N","D",">">>
NULL == <<"<","N","U","L","L",">">>
NEWLINE == <<"<","N","E","W","L","I","N","E",">">>

\* _parse_table_line: the table after the line, or the ValueError it raises
ParseTableLine(t, line) ==
    LET
        RECURSIVE HexVal(_)
        HexVal(s) ==
            LET
                HexDigitVal(c) == (CHOOSE i \in 1..16 : HexDigits[i] = c) - 1
            IN
            IF s = <<>> THEN 0
            ELSE 16 * HexVal(SubSeq(s, 1, Len(s) - 1)) + HexDigitVal(s[Len(s)])
        EndsWith(s, c) == Len(s) > 0 /\ s[Len(s)] = c
    IN
    IF ~Contains(line, "=") THEN [raised |-> FALSE, table |-> t]
    ELSE
    LET eq == Find(line, "=", 0)
        hex_part == Strip(Slice(line, 0, eq))
        rest == Slice(line, eq + 1, Len(line))
        char_part == IF Contains(rest, "#")
                     THEN RStrip(Slice(rest, 0, Find(rest, "#", 0)))
                     ELSE rest
    IN  IF ContainsPair(hex_part, "X") \/ ContainsPair(hex_part, "Y")
        THEN [raised |-> FALSE,
              table |-> [t EXCEPT !.multi_byte_patterns =
                            Put(@, hex_part, char_part)]]
        ELSE IF ~IsHex(hex_part) THEN [raised |-> TRUE, table |-> t]
        ELSE
        LET byte_value == HexVal(hex_part) IN
        IF StartsWith(char_part, "<") /\ EndsWith(char_part, ">")
        THEN [raised |-> FALSE,
              table |-> [t EXCEPT !.control_codes =
                            Put(@, byte_value, char_part)]]
        ELSE [raised |-> FALSE,
              table |-> [t EXCEPT !.byte_to_char = Put(@, byte_value, char_part),
                                  !.char_to_byte = Put(@, char_part, byte_value)]]

\* load_table's test for a line it skips
SkippedLine(line) == line = <<>> \/ StartsWith(LStrip(line), "#")

LoadTable(lines) ==
    LET
        \* load_table over a whole file: [err |-> 0, table] or [err |-> line number]
        RECURSIVE LoadLines(_, _, _)
        LoadLines(t, rest, n) ==
            IF rest = <<>> THEN [err |-> 0, table |-> t]
            ELSE IF SkippedLine(Head(rest)) THEN LoadLines(t, Tail(rest), n + 1)
            ELSE LET r == ParseTableLine(t, Head(rest))
                 IN  IF r.raised THEN [err |-> n, table |-> t]
                     ELSE LoadLines(r.table, Tail(rest), n + 1)
    IN
                    LoadLines(EmptyTable, lines, 1)

Unk(b) ==
    LET
        \* f"{b:02X}" for 0 <= b <= 255
        Hex02(v) == <<HexDigits[(v \div 16) + 1], HexDigits[(v % 16) + 1]>>
    IN
          <<"<","U","N","K",":">> \o Hex02(b) \o <<">">>

decode_byte(t, b) ==
    IF Has(t.control_codes, b) THEN Get(t.control_codes, b)
    ELSE IF Has(t.byte_to_char, b) THEN Get(t.byte_to_char, b)
    ELSE Unk(b)

\* a plausible slip: a character without a mapping becomes byte 0
EncodeCharOrZero(t, c) ==
    IF Has(t.char_to_byte, <<c>>)
    THEN [found |-> TRUE, byte |-> Get(t.char_to_byte, <<c>>)]
    ELSE [found |-> TRUE, byte |-> 0]

\* encode_char: [found, byte]  (found = FALSE is Python's None)
encode_char(t, c) ==
    IF Has(t.char_to_byte, <<c>>)
    THEN [found |-> TRUE, byte |-> Get(t.char_to_byte, <<c>>)]
    ELSE [found |-> FALSE, byte |-> -1]

Raised == [ok |-> FALSE, bytes |-> <<>>]

\* the while loop of encode_string from position i with result so far
RECURSIVE EncodeFrom(_, _, _, _)
EncodeFrom(t, text, i, result) ==
    IF i >= Len(text) THEN [ok |-> TRUE, bytes |-> result]
    ELSE
    LET char == At(text, i)
        end_bracket == IF char = "<" THEN Find(text, ">", i) ELSE -1
    IN  IF char = "<" /\ end_bracket # -1
        THEN LET control_code == Slice(text, i, end_bracket + 1)
             IN  IF HasValue(t.control_codes, control_code)
                 THEN EncodeFrom(t, text, end_bracket + 1,
                        Append(result, FirstKeyOf(t.control_codes, control_code)))
                 ELSE Raised
        ELSE LET e == encode_char(t, char)
             IN  IF e.found THEN EncodeFrom(t, text, i + 1, Append(result, e.byte))
                 ELSE Raised

\* encode_string: [ok, bytes]; bytes(result) raises outside range(0, 256)
encode_string(t, text) ==
    LET r == EncodeFrom(t, text, 0, <<>>)
    IN  IF r.ok /\ \E i \in 1..Len(r.bytes) : r.bytes[i] \notin 0..255
        THEN Raised ELSE r

IsTerminatorText(decoded) == decoded = END \/ decoded = NULL

\* decode_bytes(data, start, length); length is <<>> for None, <<n>> for n.
\* "end = start + length if length else len(data)": a length of 0 is falsy
decode_bytes(t, data, start, length) ==
    LET
        \* the while loop of decode_bytes: data[i] raises IndexError past the end
        RECURSIVE DecodeFrom(_, _, _)
        DecodeFrom(i, stop, result) ==
            IF i >= stop THEN [ok |-> TRUE, text |-> result]
            ELSE IF i >= Len(data) THEN [ok |-> FALSE, text |-> <<>>]
            ELSE LET decoded == decode_byte(t, At(data, i))
                 IN  IF IsTerminatorText(decoded) THEN [ok |-> TRUE, text |-> result]
                     ELSE DecodeFrom(i + 1, stop, result \o decoded)
        end == IF length # <<>> /\ length[1] # 0
               THEN start + length[1] ELSE Len(data)
    IN  DecodeFrom(start, end, <<>>)

-----------------------------------------------------------------------------
(* PointerUtils  (src/src/pointer_utils.py) *)

LE16 == "little_endian_16bit"
BE16 == "big_endian_16bit"

\* data[i] with Python's negative indices: the 0-based position, or -1 for
\* an IndexError
PyIndex(data, i) ==
    IF 0 <= i /\ i < Len(data) THEN i
    ELSE IF i < 0 /\ -i <= Len(data) THEN Len(data) + i
    ELSE -1

\* read_16bit_pointer: [raised, value]
read_16bit_pointer(rom, address, little_endian) ==
    IF address + 1 >= Len(rom) THEN [raised |-> TRUE, value |-> 0]
    ELSE IF PyIndex(rom, address) = -1 THEN [raised |-> TRUE, value |-> 0]
    ELSE LET first == At(rom, PyIndex(rom, address))
             second == At(rom, PyIndex(rom, address + 1))
             low == IF little_endian THEN first ELSE second
             high == IF little_endian THEN second ELSE first
         IN  [raised |-> FALSE, value |-> high * 256 + low]

\* write_16bit_pointer: [raised, rom]; rom_data[address] is assigned first,
\* so an IndexError of a negative address comes before any byte is changed
write_16bit_pointer(rom, address, target, little_endian) ==
    IF address + 1 >= Len(rom) \/ target > 65535 THEN [raised |-> TRUE, rom |-> rom]
    ELSE IF PyIndex(rom, address) = -1 THEN [raised |-> TRUE, rom |-> rom]
    ELSE LET high == (target \div 256) % 256
             low == target % 256
             first == PyIndex(rom, address) + 1
             second == PyIndex(rom, address + 1) + 1
         IN  [raised |-> FALSE,
              rom |-> IF little_endian
                      THEN [[rom EXCEPT ![first] = low] EXCEPT ![second] = high]
                      ELSE [[rom EXCEPT ![first] = high] EXCEPT ![second] = low]]

\* the for loop of read_pointer_table from entry i: [raised, pointers]
RECURSIVE ReadPointersFrom(_, _, _, _, _, _, _)
ReadPointersFrom(rom, table_address, count, format_type, base_offset, i, acc) ==
    IF i >= count THEN [raised |-> FALSE, pointers |-> acc]
    ELSE LET ptr_address == table_address + i * 2
             r == read_16bit_pointer(rom, ptr_address, format_type = LE16)
         IN  IF r.raised THEN [raised |-> TRUE, pointers |-> <<>>]
             ELSE ReadPointersFrom(rom, table_address, count, format_type,
                    base_offset, i + 1,
                    Append(acc, [address |-> ptr_address,
                                 target_address |-> r.value + base_offset,
                                 format_type |-> format_type,
                                 size_bytes |-> 2]))

read_pointer_table(rom, table_address, count, format_type, base_offset) ==
    IF format_type \notin {LE16, BE16} THEN [raised |-> TRUE, pointers |-> <<>>]
    ELSE ReadPointersFrom(rom, table_address, count, format_type, base_offset,
                          0, <<>>)

\* the for loop of update_pointer_table from pointer i: [raised, rom]; the
\* buffer is changed in place, so the writes made before a raise remain
RECURSIVE UpdatePointersFrom(_, _, _, _)
UpdatePointersFrom(rom, ps, changes, i) ==
    IF i > Len(ps) THEN [raised |-> FALSE, rom |-> rom]
    ELSE IF \/ ~Has(changes, ps[i].target_address)
            \/ ps[i].format_type \notin {LE16, BE16}
    THEN UpdatePointersFrom(rom, ps, changes, i + 1)
    ELSE LET w == write_16bit_pointer(rom, ps[i].address,
                     Get(changes, ps[i].target_address), ps[i].format_type = LE16)
         IN  IF w.raised THEN [raised |-> TRUE, rom |-> rom]
             ELSE UpdatePointersFrom(w.rom, ps, changes, i + 1)

\* a plausible slip: stop after the first pointer
UpdateFirstOnly(rom, ps, changes) ==
    UpdatePointersFrom(rom, SubSeq(ps, 1, Min2(1, Len(ps))), changes, 1)

update_pointer_table(rom, ps, changes) == UpdatePointersFrom(rom, ps, changes, 1)

RECURSIVE SortByTarget(_)
SortByTarget(ps) ==
    LET
        \* sorted(pointers, key=target_address): a stable insertion sort
        RECURSIVE InsertByTarget(_, _)
        InsertByTarget(sorted, p) ==
            IF sorted = <<>> THEN <<p>>
            ELSE IF sorted[Len(sorted)].target_address <= p.target_address
            THEN Append(sorted, p)
            ELSE Append(InsertByTarget(SubSeq(sorted, 1, Len(sorted) - 1), p),
                        sorted[Len(sorted)])
    IN
    IF ps = <<>> THEN <<>>
    ELSE InsertByTarget(SortByTarget(SubSeq(ps, 1, Len(ps) - 1)), ps[Len(ps)])

-----------------------------------------------------------------------------
(* TextReinjector  (src/src/reinjector.py): pure helpers *)

\* a plausible slip: cut the text at max_bytes characters
TruncateByChars(t, text, max_bytes) == Slice(text, 0, max_bytes)

truncate_translation(t, text, max_bytes) ==
    LET
        \* the for loop of _truncate_translation, from the prefix length `length`
        RECURSIVE TruncateFrom(_)
        TruncateFrom(length) ==
            IF length <= 0 THEN <<>>
            ELSE LET truncated == Slice(text, 0, length)
                     encoded == encode_string(t, truncated)
                 IN  IF encoded.ok /\ Len(encoded.bytes) <= max_bytes THEN truncated
                     ELSE TruncateFrom(length - 1)
    IN  TruncateFrom(Len(text))

\* the while loop of _extract_original_string: only a byte mapped to <END>
\* or <NULL> ends the string; the terminator is part of the result
RECURSIVE ExtractOriginalFrom(_, _, _, _)
ExtractOriginalFrom(t, rom, address, current_pos) ==
    IF current_pos >= Len(rom) THEN Slice(rom, address, Len(rom))
    ELSE LET byte_val == At(rom, current_pos)
         IN  IF /\ (byte_val \in {0, 255} \/ Has(t.control_codes, byte_val))
                /\ Has(t.control_codes, byte_val)
                /\ Get(t.control_codes, byte_val) \in {END, NULL}
             THEN Slice(rom, address, current_pos + 1)
             ELSE ExtractOriginalFrom(t, rom, address, current_pos + 1)

extract_original_string(t, rom, address) ==
    ExtractOriginalFrom(t, rom, address, address)

\* strings_by_address = {s.address: s for s in translated_strings}: the last
\* string loaded for an address is the one kept
StringAt(strings, address) ==
    strings[CHOOSE k \in 1..Len(strings) :
        /\ strings[k].address = address
        /\ \A j \in (k + 1)..Len(strings) : strings[j].address # address]

HasStringAt(strings, address) ==
    \E k \in 1..Len(strings) : strings[k].address = address

\* new_strings_data: the payload of each pointer, in table order
NewStringsData(t, rom, strings, ps) ==
    [i \in 1..Len(ps) |->
        IF HasStringAt(strings, ps[i].target_address)
        THEN StringAt(strings, ps[i].target_address).translated_bytes \o <<255>>
        ELSE extract_original_string(t, rom, ps[i].target_address)]

\* rom_data[lo:hi] = data on a bytearray, 0 <= lo <= hi: both ends are
\* clamped to len(rom_data), so a write that reaches past the end grows it
WriteSlice(rom, lo, hi, data) ==
    Slice(rom, 0, lo) \o data \o Slice(rom, hi, Len(rom))

\* a plausible slip: never look at the bytes that follow
CanAlwaysExpand(rom, string) == TRUE

\* _can_expand_string
can_expand_string(rom, string) ==
    LET needed_space == Len(string.translated_bytes) - Len(string.original_bytes)
        check_start == string.address + Len(string.original_bytes)
        check_end == Min2(check_start + needed_space, Len(rom))
    IN  \/ needed_space <= 0
        \/ \A i \in check_start..(check_end - 1) : At(rom, i) \in {0, 255}

\* the terminator _reinject_fixed_locations writes: the first byte mapped
\* to <END>, 0xFF by default
Terminator(t) ==
    IF HasValue(t.control_codes, END) THEN FirstKeyOf(t.control_codes, END) ELSE 255

\* the body of the for loop of _reinject_fixed_locations for one string:
\* the buffer and the string after it, and how the try block ended
FixedBody(t, rom, string) ==
    LET truncate == /\ Len(string.translated_bytes) > Len(string.original_bytes)
                    /\ ~can_expand_string(rom, string)
        truncated_text == truncate_translation(t, string.translated_text,
                                               Len(string.original_bytes))
        encoded == IF truncate THEN encode_string(t, truncated_text)
                   ELSE [ok |-> TRUE, bytes |-> string.translated_bytes]
        end_addr == string.address + Len(encoded.bytes)
        written == WriteSlice(rom, string.address, end_addr, encoded.bytes)
        terminator == Terminator(t)
    IN  IF ~encoded.ok
        THEN [rom |-> rom, string |-> string, truncated |-> FALSE, failed |-> TRUE]
        ELSE IF end_addr < Len(written)
        THEN IF terminator \in 0..255
             THEN [rom |-> [written EXCEPT ![end_addr + 1] = terminator],
                   string |-> [string EXCEPT !.translated_bytes = encoded.bytes],
                   truncated |-> truncate, failed |-> FALSE]
             ELSE [rom |-> written,
                   string |-> [string EXCEPT !.translated_bytes = encoded.bytes],
                   truncated |-> truncate, failed |-> TRUE]
        ELSE [rom |-> written,
              string |-> [string EXCEPT !.translated_bytes = encoded.bytes],
              truncated |-> truncate, failed |-> FALSE]

-----------------------------------------------------------------------------
(* Values of the variables an operation does not use *)

NoCall == [op |-> "none"]
NoResults == [method |-> "none", successful |-> 0, failed |-> 0, issues |-> <<>>]

NoConfig == [method |-> "none"]
IdlePointers ==
    /\ pointers = <<>> /\ new_strings_data = <<>> /\ address_changes = <<>>
    /\ current_address = 0 /\ placements = <<>>

IdleCall == arg = NoCall /\ ret = NoCall
IdleReinjector ==
    /\ original_data = <<>> /\ rom_data = <<>> /\ translated_strings = <<>>
    /\ results = NoResults /\ idx = 0 /\ config = NoConfig /\ IdlePointers

callVars == <<arg, ret>>
ptrVars == <<pointers, new_strings_data, address_changes, current_address,
             placements>>
reinjVars == <<original_data, rom_data, translated_strings, results, idx,
               config, ptrVars>>

-----------------------------------------------------------------------------
(* Loading a table file line by line, and the byte round trip             *)
(* encode_string(decode_byte(b))                                          *)

MaxLines == 2

\* lines of .tbl files: the lines of the test tables and the other shapes
\* the grammar of _parse_table_line distinguishes
TableLines ==
    { <<"4","1","=","A">>,                      \* glyph
      <<"4","2","=","B">>,
      <<"2","0","="," ">>,                      \* the space glyph
      <<"F","E","=">> \o NEWLINE,               \* control codes
      <<"F","F","=">> \o END,
      <<"0","0","=">> \o NULL,
      <<"F","D","=">> \o END,                   \* a second byte for <END>
      <<"4","1","=">> \o END,                   \* a glyph byte as control code
      <<"4","3","=","A","B">>,                  \* a two-character glyph
      <<"4","4","=">>,                          \* an empty glyph
      <<"4","5","=","A">>,                      \* a second byte for glyph A
      <<"2","0","="," "," ","#"," ","s">>,      \* inline comment
      <<"3","C","=","<">>,                      \* the glyph "<"
      <<"F","0","X","X","=","<","D",":","X","X",">">>,  \* multi-byte pattern
      <<"#"," ","c">>,                          \* comment line
      <<"4","1">>,                              \* no "=" at all
      <<"Z","Z","=","A">> }                     \* invalid hex

TableInit ==
    /\ pc = "loading" /\ table = EmptyTable /\ line_num = 0
    /\ IdleCall /\ IdleReinjector

\* one iteration of load_table's loop over the file
LoadLine(line) ==
    /\ pc = "loading" /\ line_num < MaxLines
    /\ line_num' = line_num + 1
    /\ IF SkippedLine(line) THEN UNCHANGED <<pc, table>>
       ELSE LET r == ParseTableLine(table, line)
            IN  IF r.raised THEN pc' = "load_failed" /\ UNCHANGED table
                ELSE table' = r.table /\ UNCHANGED pc
    /\ arg' = [op |-> "load_line", line |-> line]
    /\ UNCHANGED <<ret, reinjVars>>

MappedBytes(t) == Keys(t.byte_to_char) \cup Keys(t.control_codes)

\* encode_string(decode_byte(b)) on a table whose file was read to its end
RoundTrip(b) ==
    /\ pc = "loading"
    /\ pc' = "round_trip"
    /\ arg' = [b |-> b, decoded |-> decode_byte(table, b)]
    /\ ret' = encode_string(table, decode_byte(table, b))
    /\ UNCHANGED <<table, line_num, reinjVars>>

TableNext ==
    \/ \E line \in TableLines : LoadLine(line)
    \/ \E b \in MappedBytes(table) : RoundTrip(b)

SpecTable == TableInit /\ [][TableNext]_vars

\* C6: for every byte a loaded table maps, encoding what decode_byte gives
\* for it returns exactly that one byte (decode_byte of a mapped byte is
\* never the synthetic <UNK:XX> placeholder).
C6_RoundTrip ==
    pc = "round_trip" => ret = [ok |-> TRUE, bytes |-> <<arg.b>>]

\* the round trip of a byte mapped to a one-character glyph did happen
C6_Reached ==
    pc = "round_trip" /\ Len(arg.decoded) = 1 /\ ret = [ok |-> TRUE, bytes |-> <<arg.b>>]

\* C11: after any sequence of table lines, no byte value is a key of both
\* byte_to_char and control_codes.
C11_DisjointMaps ==
    Keys(table.byte_to_char) \cap Keys(table.control_codes) = {}

\* two lines were loaded, one a glyph and one a control code
C11_Reached ==
    /\ pc = "loading" /\ line_num = 2
    /\ table.byte_to_char # <<>> /\ table.control_codes # <<>>

\* the line load_table read last
LineRead == pc \in {"loading", "load_failed"} /\ line_num > 0

\* a line with no "=", or whose key is neither hex nor a placeholder template
Malformed(line) ==
    \/ ~Contains(line, "=")
    \/ LET key == Strip(Slice(line, 0, Find(line, "=", 0)))
       IN  ~IsHex(key) /\ ~ContainsPair(key, "X") /\ ~ContainsPair(key, "Y")

\* C13: whenever a line that is neither blank nor a comment is malformed,
\* loading fails at that line; no such line is silently ignored.
C13_MalformedRejected ==
    (LineRead /\ ~SkippedLine(arg.line) /\ Malformed(arg.line))
        => pc = "load_failed"

\* loading failed at the second line, whose key is not hex
C13_Reached ==
    /\ pc = "load_failed" /\ line_num = 2
    /\ Contains(arg.line, "=") /\ Malformed(arg.line)

\* C24: after any lines loaded, char_to_byte is the inverse of byte_to_char:
\* every glyph g that char_to_byte maps has byte_to_char[char_to_byte[g]] = g.
C24_InverseMaps ==
    \A g \in Keys(table.char_to_byte) :
        /\ Has(table.byte_to_char, Get(table.char_to_byte, g))
        /\ Get(table.byte_to_char, Get(table.char_to_byte, g)) = g

C24_Reached ==
    /\ pc = "loading" /\ line_num = 2
    /\ Len(table.char_to_byte) = 2
    /\ Len(table.byte_to_char) = 1

-----------------------------------------------------------------------------
(* decode_bytes and _truncate_translation on loaded tables *)

MaxData == 3        \* longest byte sequence handed to decode_bytes
MaxPieces == 3      \* longest text, in pieces, handed to _truncate_translation
MaxBudget == 3      \* largest max_bytes

DataBytes == {0, 65, 153, 255}     \* 0x00, 0x41, 0x99 (never mapped), 0xFF

Texts(n) ==
    LET
        TextPieces == { <<"A">>, <<"B">>, <<"?">>, <<"<">>, NEWLINE, END }
    IN
            {Flatten(ps) : ps \in SeqsUpTo(TextPieces, n)}

CodecInit ==
    LET
        CodecTables ==
            LET
                \* a table with no terminator at all
                PlainTableFile == << <<"4","1","=","A">>, <<"4","2","=","B">> >>
                \* a table with <NULL> on 0x00 and a glyph for "<"
                NullTableFile ==
                    << <<"4","1","=","A">>, <<"3","C","=","<">>, <<"0","0","=">> \o NULL,
                       <<"F","E","=">> \o NEWLINE >>
                \* the table of tests/test_encoding.py (without its pattern line)
                TestTableFile ==
                    << <<"4","1","=","A">>, <<"4","2","=","B">>, <<"2","0","="," ">>,
                       <<"F","E","=">> \o NEWLINE, <<"F","F","=">> \o END >>
            IN
            {LoadTable(f).table : f \in {TestTableFile, NullTableFile, PlainTableFile}}
    IN
    /\ pc = "ready" /\ table \in CodecTables /\ line_num = 0
    /\ IdleCall /\ IdleReinjector

DecodeBytes(data, start, length) ==
    /\ pc = "ready"
    /\ pc' = "decode_bytes"
    /\ arg' = [data |-> data, start |-> start, length |-> length]
    /\ ret' = decode_bytes(table, data, start, length)
    /\ UNCHANGED <<table, line_num, reinjVars>>

Truncate(text, max_bytes) ==
    /\ pc = "ready"
    /\ pc' = "truncate"
    /\ arg' = [text |-> text, max_bytes |-> max_bytes]
    /\ ret' = truncate_translation(table, text, max_bytes)
    /\ UNCHANGED <<table, line_num, reinjVars>>

Encode(text) ==
    /\ pc = "ready"
    /\ pc' = "encode_string"
    /\ arg' = [text |-> text]
    /\ ret' = encode_string(table, text)
    /\ UNCHANGED <<table, line_num, reinjVars>>

CodecNext ==
    \/ \E text \in Texts(MaxPieces) : Encode(text)
    \/ \E data \in SeqsUpTo(DataBytes, MaxData), start \in 0..MaxData,
          length \in {<<>>} \cup {<<n>> : n \in 0..(MaxData + 1)} :
            DecodeBytes(data, start, length)
    \/ \E text \in Texts(MaxPieces), max_bytes \in 0..MaxBudget :
            Truncate(text, max_bytes)

SpecCodec == CodecInit /\ [][CodecNext]_vars

\* positions of data, from start on, whose byte decodes to <END> or <NULL>
TerminatorsFrom(t, data, start) ==
    {i \in start..(Len(data) - 1) : IsTerminatorText(decode_byte(t, At(data, i)))}

FirstTerminator(t, data, start) ==
    CHOOSE i \in TerminatorsFrom(t, data, start) :
        \A j \in TerminatorsFrom(t, data, start) : i <= j

\* the concatenated decodings of data[lo:hi]
Decodings(t, data, lo, hi) ==
    Flatten([k \in 1..Len(Slice(data, lo, hi)) |->
                decode_byte(t, Slice(data, lo, hi)[k])])

\* C7: for any data, start and optional length bound, decode_bytes returns,
\* and when data holds a terminator at or after start that lies before the
\* bound, the result is the decodings of the bytes from start up to, and
\* excluding, the first such terminator.
C7_StopsAtTerminator ==
    pc = "decode_bytes" =>
        /\ ret.ok
        /\ LET T == TerminatorsFrom(table, arg.data, arg.start)
               bounded == arg.length # <<>>
           IN  (T # {} /\ (bounded =>
                    FirstTerminator(table, arg.data, arg.start)
                        < arg.start + arg.length[1]))
               => ret.text = Decodings(table, arg.data, arg.start,
                                FirstTerminator(table, arg.data, arg.start))

\* a call with a bound that reaches beyond a terminator returned
C7_Reached ==
    /\ pc = "decode_bytes" /\ ret.ok /\ arg.length # <<>>
    /\ TerminatorsFrom(table, arg.data, arg.start) # {}
    /\ FirstTerminator(table, arg.data, arg.start) + 1 < arg.start + arg.length[1]
    /\ Len(ret.text) > 0

IsPrefix(p, s) == Len(p) <= Len(s) /\ p = SubSeq(s, 1, Len(p))

\* C8: for every text and every max_bytes >= 0, _truncate_translation
\* returns a prefix of the text that encode_string accepts and that encodes
\* to at most max_bytes bytes (possibly the empty string).
C8_TruncationFits ==
    pc = "truncate" =>
        /\ IsPrefix(ret, arg.text)
        /\ encode_string(table, ret).ok
        /\ Len(encode_string(table, ret).bytes) <= arg.max_bytes

\* a text with a control code was cut to a shorter, non-empty prefix
C8_Reached ==
    /\ pc = "truncate" /\ ret # <<>> /\ ret # arg.text
    /\ Contains(arg.text, "<") /\ Contains(ret, "<")

\* the units encode_string reads text in: a "<" with a ">" after it opens a
\* control-code token that runs to the first ">"; anything else is one
\* character
RECURSIVE Tokens(_)
Tokens(text) ==
    IF text = <<>> THEN <<>>
    ELSE IF Head(text) = "<" /\ Contains(text, ">")
    THEN LET close == Find(text, ">", 0)
         IN  <<Slice(text, 0, close + 1)>> \o Tokens(Slice(text, close + 1, Len(text)))
    ELSE <<<<Head(text)>>>> \o Tokens(Tail(text))

IsControlToken(token) == Len(token) >= 2

\* byte b is what the table gives for the token
EncodesAs(t, token, b) ==
    IF IsControlToken(token)
    THEN Has(t.control_codes, b) /\ Get(t.control_codes, b) = token
    ELSE Has(t.char_to_byte, token) /\ Get(t.char_to_byte, token) = b

Encodable(t, token) ==
    IF IsControlToken(token) THEN HasValue(t.control_codes, token)
    ELSE Has(t.char_to_byte, token)

\* C12: encode_string returns one byte for each control-code token and each
\* other character, in order, or raises and returns no bytes; it raises
\* when a token is not the value of a control code or a character is not a
\* key of char_to_byte.
C12_EncodeAllOrNothing ==
    pc = "encode_string" =>
        LET tokens == Tokens(arg.text)
        IN  /\ \/ ret = Raised
               \/ /\ ret.ok /\ Len(ret.bytes) = Len(tokens)
                  /\ \A k \in 1..Len(tokens) : EncodesAs(table, tokens[k], ret.bytes[k])
            /\ (\E k \in 1..Len(tokens) : ~Encodable(table, tokens[k])) => ret = Raised

\* a text with a control-code token was encoded, and a text with a
\* character the table does not map was refused
C12_Reached ==
    /\ pc = "encode_string"
    /\ \/ ret.ok /\ \E k \in 1..Len(Tokens(arg.text)) : IsControlToken(Tokens(arg.text)[k])
       \/ ~ret.ok /\ Contains(arg.text, "?")

-----------------------------------------------------------------------------
(* reinject_into_rom with the fixed_locations method *)

RomLen == 3         \* bytes of the image
MaxStrings == 2     \* translated strings loaded

FixedTables ==
    LET
        \* the table of the run: glyphs A and B, <NEWLINE>, and <END> on 0xFD
        EndTableFile ==
            << <<"4","1","=","A">>, <<"4","2","=","B">>,
               <<"F","E","=">> \o NEWLINE, <<"F","D","=">> \o END >>
    IN
               {LoadTable(EndTableFile).table}

\* load_translations_from_json: a row is kept when its text encodes
LoadedString(t, id, address, row) ==
    [string_id |-> id, address |-> address,
     translated_text |-> row.translated_text,
     original_bytes |-> row.original_bytes,
     translated_bytes |-> encode_string(t, row.translated_text).bytes]

FixedInit ==
    LET
        \* the rows of a translation file: original bytes and translated text
        Rows ==
            { [original_bytes |-> <<65>>,     translated_text |-> <<"B">>],
              [original_bytes |-> <<65, 65>>, translated_text |-> <<"B">>],
              [original_bytes |-> <<65>>,     translated_text |-> <<"B", "B">>],
              [original_bytes |-> <<65, 65>>, translated_text |-> <<"B">> \o NEWLINE \o <<"B">>],
              [original_bytes |-> <<>>,       translated_text |-> <<"B">>] }
        \* image bytes: filler (0x00) and data (0x41)
        Images(n) == [1..n -> {0, 65}]
    IN
    /\ pc = "fixed" /\ table \in FixedTables /\ line_num = 0 /\ IdleCall
    /\ original_data \in Images(RomLen)
    /\ rom_data = original_data
    /\ \E n \in 1..MaxStrings :
         \E addresses \in [1..n -> 0..RomLen], rows \in [1..n -> Rows] :
            /\ \A k \in 1..n : encode_string(table, rows[k].translated_text).ok
            /\ translated_strings =
                 [k \in 1..n |-> LoadedString(table, k, addresses[k], rows[k])]
    /\ results = [method |-> "fixed_locations", successful |-> 0, failed |-> 0,
                  issues |-> <<>>]
    /\ idx = 0
    /\ config = [method |-> "fixed_locations"] /\ IdlePointers

\* ROMValidator._check_change_regions: whether every maximal run [start, end)
\* of positions at which the two images differ lies inside one of the
\* expected regions
check_change_regions(original, modified, expected_regions) ==
    LET Differs(i) == i \in 0..(Len(original) - 1) /\ At(original, i) # At(modified, i)
        actual_changes ==
            { <<start, end>> \in (0..Len(original)) \X (0..Len(original)) :
                /\ start < end
                /\ \A i \in start..(end - 1) : Differs(i)
                /\ ~Differs(start - 1) /\ ~Differs(end) }
    IN  IF Len(original) # Len(modified) THEN FALSE
        ELSE \A change \in actual_changes :
                \E k \in 1..Len(expected_regions) :
                    /\ expected_regions[k][1] <= change[1]
                    /\ change[1] < expected_regions[k][2]
                    /\ expected_regions[k][1] < change[2]
                    /\ change[2] <= expected_regions[k][2]

\* one iteration of the loop of _reinject_fixed_locations; after the last
\* one reinject_into_rom validates modified_data against the regions
\* (address, address + len(translated_bytes)) of the strings and writes it
\* to the output file
FixedStep ==
    /\ pc = "fixed" /\ idx < Len(translated_strings)
    /\ LET string == translated_strings[idx + 1]
           r == FixedBody(table, rom_data, string)
       IN  /\ rom_data' = r.rom
           /\ translated_strings' = [translated_strings EXCEPT ![idx + 1] = r.string]
           /\ results' =
                [results EXCEPT
                   !.successful = IF r.failed THEN @ ELSE @ + 1,
                   !.failed = IF r.failed THEN @ + 1 ELSE @,
                   !.issues =
                       @ \o (IF r.truncated
                             THEN << <<string.string_id, "truncated">> >> ELSE <<>>)
                         \o (IF r.failed
                             THEN << <<string.string_id, "error">> >> ELSE <<>>)]
    /\ idx' = idx + 1
    /\ pc' = IF idx + 1 = Len(translated_strings) THEN "written" ELSE "fixed"
    /\ ret' = IF idx + 1 = Len(translated_strings)
              THEN [op |-> "validate_modified_rom",
                    change_regions |->
                        check_change_regions(original_data, rom_data',
                            [k \in 1..Len(translated_strings') |->
                                <<translated_strings'[k].address,
                                  translated_strings'[k].address
                                    + Len(translated_strings'[k].translated_bytes)>>])]
              ELSE ret
    /\ UNCHANGED <<table, line_num, arg, original_data, config, ptrVars>>

FixedNext == FixedStep

SpecFixed == FixedInit /\ [][FixedNext]_vars

\* C1: the image written has exactly as many bytes as the input image.
C1_SameLength == pc = "written" => Len(rom_data) = Len(original_data)

\* an image was written after a string was placed at its very end
C1_Reached ==
    /\ pc = "written" /\ Len(rom_data) = Len(original_data)
    /\ \E k \in 1..Len(translated_strings) :
          translated_strings[k].address + Len(translated_strings[k].translated_bytes)
              = Len(rom_data)

\* position i lies in [address, address + len(original_bytes)] of a string
InStringRange(i) ==
    \E k \in 1..Len(translated_strings) :
        /\ translated_strings[k].address <= i
        /\ i <= translated_strings[k].address + Len(translated_strings[k].original_bytes)

\* C2: every byte outside the ranges [address, address + len(original_bytes)]
\* of the translated strings is the same in the output and the input image.
C2_OutsideUnchanged ==
    pc = "written" =>
        \A i \in 0..(Len(original_data) - 1) :
            ~InStringRange(i) => i < Len(rom_data) /\ At(rom_data, i) = At(original_data, i)

\* a longer translation was written and the image was output
C2_Reached ==
    /\ pc = "written" /\ Len(rom_data) = Len(original_data)
    /\ \E k \in 1..Len(translated_strings) :
          Len(translated_strings[k].translated_bytes)
              > Len(translated_strings[k].original_bytes)

Truncated(k) ==
    \E j \in 1..Len(results.issues) : results.issues[j] = <<k, "truncated">>

\* C9: for every string whose encoded translation is no longer than its
\* original bytes, the output image holds the encoded translation at its
\* address, followed by the terminator when that position is in the image.
C9_WrittenInPlace ==
    pc = "written" =>
        \A k \in 1..Len(translated_strings) :
            LET string == translated_strings[k]
                end_addr == string.address + Len(string.translated_bytes)
            IN  (~Truncated(k) /\ Len(string.translated_bytes) <= Len(string.original_bytes))
                => /\ Slice(rom_data, string.address, end_addr) = string.translated_bytes
                   /\ end_addr < Len(rom_data) => At(rom_data, end_addr) = Terminator(table)

\* a fitting translation and its terminator are in the output image
C9_Reached ==
    /\ pc = "written"
    /\ \E k \in 1..Len(translated_strings) :
          LET string == translated_strings[k]
              end_addr == string.address + Len(string.translated_bytes)
          IN  /\ ~Truncated(k) /\ Len(string.translated_bytes) <= Len(string.original_bytes)
              /\ end_addr < Len(rom_data)
              /\ Slice(rom_data, string.address, end_addr) = string.translated_bytes
              /\ At(rom_data, end_addr) = Terminator(table)

\* the longest prefix of text that encodes, and encodes to at most budget bytes
FittingPrefixes(t, text, budget) ==
    {n \in 0..Len(text) :
        /\ encode_string(t, Slice(text, 0, n)).ok
        /\ Len(encode_string(t, Slice(text, 0, n)).bytes) <= budget}

LongestFittingPrefix(t, text, budget) ==
    Slice(text, 0, CHOOSE n \in FittingPrefixes(t, text, budget) :
                      \A m \in FittingPrefixes(t, text, budget) : m <= n)

\* the next string is longer than its original bytes and a byte that follows
\* them, within the overflow, is neither 0x00 nor 0xFF
MustTruncate ==
    /\ pc = "fixed" /\ idx < Len(translated_strings)
    /\ LET string == translated_strings[idx + 1]
           over == Len(string.translated_bytes) - Len(string.original_bytes)
           after == string.address + Len(string.original_bytes)
       IN  /\ over > 0
           /\ \E i \in after..(after + over - 1) :
                 i < Len(rom_data) /\ At(rom_data, i) \notin {0, 255}

\* C10: when a string must be truncated, the bytes written at its address
\* are the encoding of the longest encodable prefix of the translated text
\* that fits len(original_bytes), so no more than that many bytes.
C10_TruncatedToBudget ==
    [][MustTruncate =>
        LET string == translated_strings[idx + 1]
            fit == encode_string(table,
                      LongestFittingPrefix(table, string.translated_text,
                                           Len(string.original_bytes))).bytes
        IN  /\ translated_strings'[idx + 1].translated_bytes = fit
            /\ Slice(rom_data', string.address, string.address + Len(fit)) = fit
            /\ Len(fit) <= Len(string.original_bytes)
            /\ Len(rom_data') = Len(rom_data)]_vars

\* a translation with a control code was truncated to a non-empty prefix
C10_Reached ==
    \E k \in 1..Len(translated_strings) :
        /\ Truncated(k)
        /\ translated_strings[k].translated_bytes # <<>>
        /\ Contains(translated_strings[k].translated_text, "<")

\* C30: after a fixed-location reinjection in which every string was
\* written successfully the change_regions check passes.
C30_ChangesInRegions ==
    (pc = "written" /\ config.method = "fixed_locations" /\ results.failed = 0)
        => ret.change_regions

C30_Reached ==
    /\ pc = "written" /\ config.method = "fixed_locations"
    /\ results.failed = 0 /\ results.issues = <<>>
    /\ Len(translated_strings) = 1
    /\ translated_strings[1].address + Len(translated_strings[1].translated_bytes)
         < Len(rom_data)
    /\ rom_data # original_data

-----------------------------------------------------------------------------
(* Pointer-table reinjection: TextReinjector._reinject_pointer_table with
   PointerUtils.compact_pointer_targets and update_pointer_table.  The image
   is a pointer table at address 0 followed by a string area. *)

MaxPtrs == 2

BaseOffsets == {0, 1}

PtrInit ==
    LET
        PointerTableBytes(targets, format_type, base_offset) ==
            LET
                \* the two bytes of a table entry holding raw value v
                PointerBytes(v, fmt) ==
                    IF fmt = LE16 THEN <<v % 256, v \div 256>> ELSE <<v \div 256, v % 256>>
            IN
            Flatten([i \in 1..Len(targets) |->
                        PointerBytes(targets[i] - base_offset, format_type)])
        PtrTexts == { <<"B">>, <<"B", "B">> }
        AreaBytes == {65, 253, 255}
        \* the string area is one byte longer than the number of pointers
        DataLen == MaxPtrs + 1
    IN
    /\ pc = "pointer" /\ table \in FixedTables /\ line_num = 0 /\ IdleCall
    /\ \E count \in 1..MaxPtrs, format_type \in {LE16, BE16},
          base_offset \in BaseOffsets :
         \E targets \in [1..count -> (2 * count)..(2 * count + DataLen)],
            area \in [1..DataLen -> AreaBytes] :
            /\ original_data =
                 PointerTableBytes(targets, format_type, base_offset) \o area
            /\ config = [method |-> "pointer_table",
                         pointer_table |-> [address |-> 0, count |-> count,
                                            format |-> format_type,
                                            base_offset |-> base_offset]]
            /\ \/ translated_strings = <<>>
               \/ \E address \in (2 * count)..(2 * count + DataLen),
                     text \in PtrTexts :
                    translated_strings =
                      << LoadedString(table, 1, address,
                           [original_bytes |-> <<65>>, translated_text |-> text]) >>
    /\ rom_data = original_data
    /\ results = [method |-> "pointer_table", successful |-> 0, failed |-> 0,
                  issues |-> <<>>, pointers_updated |-> 0]
    /\ idx = 0 /\ IdlePointers

PtrFailed ==
    [results EXCEPT !.failed = Len(translated_strings),
                    !.issues = Append(@, "Pointer table update failed")]

\* _reinject_pointer_table up to the call of compact_pointer_targets, and the
\* first statements of that call; a raise of read_pointer_table is outside the
\* try block and ends reinject_into_rom without an output file
PtrRead ==
    LET
        \* min(p.target_address for p in pointers), for a non-empty list
        MinTarget(ps) ==
            CHOOSE m \in {ps[i].target_address : i \in 1..Len(ps)} :
                \A i \in 1..Len(ps) : m <= ps[i].target_address
    IN
    /\ pc = "pointer"
    /\ LET cfg == config.pointer_table
           r == read_pointer_table(rom_data, cfg.address, cfg.count, cfg.format,
                                   cfg.base_offset)
       IN  IF r.raised
           THEN /\ pc' = "crashed"
                /\ UNCHANGED <<pointers, new_strings_data, current_address>>
           ELSE /\ pointers' = r.pointers
                /\ new_strings_data' =
                     NewStringsData(table, rom_data, translated_strings, r.pointers)
                /\ current_address' = MinTarget(r.pointers)
                /\ pc' = "compact"
    /\ UNCHANGED <<table, line_num, callVars, original_data, rom_data,
                   translated_strings, results, idx, config, address_changes,
                   placements>>

\* one iteration of the for loop of compact_pointer_targets; its raise is
\* caught by _reinject_pointer_table and reinject_into_rom then writes the
\* image as it is
CompactStep ==
    /\ pc = "compact" /\ idx < Len(pointers)
    /\ LET pointer == SortByTarget(pointers)[idx + 1]
           old_address == pointer.target_address
           new_data == new_strings_data[idx + 1]
           end_address == current_address + Len(new_data)
       IN  /\ address_changes' = Put(address_changes, old_address, current_address)
           /\ placements' = Append(placements,
                               [old |-> old_address, new |-> current_address,
                                data |-> new_data])
           /\ IF end_address > Len(rom_data)
              THEN /\ results' = PtrFailed
                   /\ pc' = "written"
                   /\ UNCHANGED <<rom_data, current_address, idx>>
              ELSE /\ rom_data' = WriteSlice(rom_data, current_address,
                                             end_address, new_data)
                   /\ current_address' = end_address
                   /\ idx' = idx + 1
                   /\ UNCHANGED <<results, pc>>
    /\ UNCHANGED <<table, line_num, callVars, original_data, translated_strings,
                   config, pointers, new_strings_data>>

\* compact_pointer_targets has returned: update_pointer_table, the result
\* counters, and the write of the output file
PtrUpdate ==
    /\ pc = "compact" /\ idx = Len(pointers)
    /\ LET u == update_pointer_table(rom_data, pointers, address_changes)
       IN  /\ rom_data' = u.rom
           /\ results' =
                IF u.raised THEN PtrFailed
                ELSE [results EXCEPT !.successful = Len(translated_strings),
                                     !.pointers_updated = Len(address_changes)]
    /\ pc' = "written"
    /\ UNCHANGED <<table, line_num, callVars, original_data, translated_strings,
                   idx, config, ptrVars>>

PtrNext == PtrRead \/ CompactStep \/ PtrUpdate

SpecPtr == PtrInit /\ [][PtrNext]_vars

\* compact_pointer_targets has returned normally
CompactReturned == pc = "compact" /\ idx = Len(pointers)

TargetsOf(ps) == {ps[i].target_address : i \in 1..Len(ps)}

\* the byte range written for one loop iteration
PlacedRange(pl) == {a \in 0..(Len(rom_data) + 1) : pl.new <= a /\ a < pl.new + Len(pl.data)}

\* C4: when compact_pointer_targets returns normally, every target address
\* of a processed pointer was assigned a new address exactly once, distinct
\* old targets have distinct new addresses, and the byte ranges written for
\* the pointers do not overlap.
C4_Bijection ==
    CompactReturned =>
        /\ \A t \in TargetsOf(pointers) :
             Cardinality({k \in 1..Len(placements) : placements[k].old = t}) = 1
        /\ \A a \in Keys(address_changes), b \in Keys(address_changes) :
             a # b => Get(address_changes, a) # Get(address_changes, b)
        /\ \A j \in 1..Len(placements), k \in 1..Len(placements) :
             j # k => PlacedRange(placements[j]) \cap PlacedRange(placements[k]) = {}

\* compact_pointer_targets returned for a table in which two pointers share
\* one target
C4_Reached ==
    /\ CompactReturned
    /\ Len(pointers) >= 2
    /\ Cardinality(TargetsOf(pointers)) < Len(pointers)

\* the pointer-table reinjection has finished and reports no issue
PtrSucceeded ==
    /\ pc = "written" /\ config.method = "pointer_table"
    /\ results.failed = 0 /\ results.issues = <<>>

\* the address entry i of the rewritten table resolves to, read the way
\* read_pointer_table reads it
Resolved(i) ==
    read_16bit_pointer(rom_data, pointers[i].address,
                       pointers[i].format_type = LE16).value
        + config.pointer_table.base_offset

HoldsPayload(i) ==
    Slice(rom_data, Resolved(i), Resolved(i) + Len(new_strings_data[i]))
        = new_strings_data[i]

\* C5: after a pointer-table reinjection that reports success, the address
\* every rewritten pointer i resolves to holds the payload built for
\* pointer i, whatever the order of the targets in the table.
C5_PointerResolves ==
    PtrSucceeded => \A i \in 1..Len(pointers) : HoldsPayload(i)

\* a successful reinjection of a table whose targets are in descending order
\* and one of which is a translated string
C5_Reached ==
    /\ PtrSucceeded
    /\ Len(pointers) >= 2
    /\ pointers[1].target_address > pointers[2].target_address
    /\ \E i \in 1..Len(pointers) :
         HasStringAt(translated_strings, pointers[i].target_address)

\* the pointer-table reinjection has reported a failure
PtrReportedFailure ==
    /\ pc = "written" /\ config.method = "pointer_table"
    /\ results.issues # <<>>

\* C27: when the pointer-table reinjection reports a failure the image
\* buffer is byte for byte the input image.
C27_FailureLeavesImage == PtrReportedFailure => rom_data = original_data

C27_Reached ==
    /\ PtrReportedFailure
    /\ results.failed = 1
    /\ Len(placements) >= 2

\* the table of the rewritten image, read again with the format and the
\* base offset it was read with before
ReadAgain ==
    read_pointer_table(rom_data, config.pointer_table.address,
                       config.pointer_table.count, config.pointer_table.format,
                       config.pointer_table.base_offset)

\* C28: after update_pointer_table has rewritten the table, reading it again
\* with the same format and base offset gives, for every pointer whose old
\* target is a key of the address map, the mapped new address.
C28_ReadBackMapped ==
    PtrSucceeded =>
        /\ ~ReadAgain.raised
        /\ \A i \in 1..Len(pointers) :
             Has(address_changes, pointers[i].target_address) =>
                ReadAgain.pointers[i].target_address
                    = Get(address_changes, pointers[i].target_address)

C28_Reached ==
    /\ PtrSucceeded
    /\ config.pointer_table.base_offset # 0
    /\ config.pointer_table.format = BE16
    /\ Len(pointers) >= 2

-----------------------------------------------------------------------------
(* Patch generation: TextReinjector._generate_ips_patch.  The two images and
   the patch file are kept run-length encoded, a sequence of <<count, byte>>
   runs, so that the images can be as long as the widths of the record
   fields require. *)

\* start_offset.to_bytes(3, 'big') and length.to_bytes(2, 'big')
OffsetFieldBytes == 3
LengthFieldBytes == 2

RunLen(run) == run[1]
RunByte(run) == run[2]

\* len(data)
RECURSIVE RLen(_)
RLen(r) == IF r = <<>> THEN 0 ELSE RunLen(Head(r)) + RLen(Tail(r))

\* data[n:]
RECURSIVE RDrop(_, _)
RDrop(r, n) ==
    IF n <= 0 \/ r = <<>> THEN r
    ELSE IF RunLen(Head(r)) <= n THEN RDrop(Tail(r), n - RunLen(Head(r)))
    ELSE << <<RunLen(Head(r)) - n, RunByte(Head(r))>> >> \o Tail(r)

\* data[:n]
RECURSIVE RTake(_, _)
RTake(r, n) ==
    IF n <= 0 \/ r = <<>> THEN <<>>
    ELSE IF RunLen(Head(r)) <= n
    THEN <<Head(r)>> \o RTake(Tail(r), n - RunLen(Head(r)))
    ELSE << <<n, RunByte(Head(r))>> >>

\* data[lo:hi]
RSlice(r, lo, hi) == RTake(RDrop(r, lo), hi - lo)

\* data[i], for 0 <= i < len(data)
RAt(r, i) == RunByte(Head(RDrop(r, i)))

\* the same bytes with no two adjacent runs of one value
RECURSIVE Canon(_)
Canon(r) ==
    IF r = <<>> THEN <<>>
    ELSE IF RunLen(Head(r)) = 0 THEN Canon(Tail(r))
    ELSE LET rest == Canon(Tail(r))
         IN  IF rest # <<>> /\ RunByte(Head(rest)) = RunByte(Head(r))
             THEN << <<RunLen(Head(r)) + RunLen(Head(rest)), RunByte(Head(r))>> >>
                     \o Tail(rest)
             ELSE <<Head(r)>> \o rest

\* a bytes literal
Literal(bytes) == [k \in 1..Len(bytes) |-> <<1, bytes[k]>>]

PATCH == <<80, 65, 84, 67, 72>>
EOF == <<69, 79, 70>>

\* int.to_bytes(width, 'big'): OverflowError when v needs more bytes
to_bytes(v, width) ==
    LET
        \* the big-endian digits of v, width of them
        RECURSIVE BigEndian(_, _)
        BigEndian(n, w) ==
            IF w = 0 THEN <<>>
            ELSE Append(BigEndian(n \div 256, w - 1), n % 256)
    IN
    IF v >= 256 ^ width THEN [raised |-> TRUE, bytes |-> <<>>]
    ELSE [raised |-> FALSE, bytes |-> BigEndian(v, width)]

\* both images are constant from i up to this position, so the loops of
\* _generate_ips_patch take the same branch at every position in between
NextBoundary(original, modified, i) ==
    LET
        \* the first position after i where the run holding position i ends
        RunEnd(r, k) == k + RunLen(Head(RDrop(r, k)))
    IN
    Min2(RunEnd(original, i), RunEnd(modified, i))

\* the inner while loop: the end of the differing run that starts at i
RECURSIVE DifferenceEnd(_, _, _)
DifferenceEnd(original, modified, i) ==
    IF i < RLen(original) /\ RAt(original, i) # RAt(modified, i)
    THEN DifferenceEnd(original, modified, NextBoundary(original, modified, i))
    ELSE i

\* the outer while loop from position i: [raised, patch]
RECURSIVE ScanDifferences(_, _, _, _)
ScanDifferences(original, modified, i, patch_data) ==
    IF i >= RLen(original)
    THEN [raised |-> FALSE, patch |-> patch_data \o Literal(EOF)]
    ELSE IF RAt(original, i) # RAt(modified, i)
    THEN LET start_offset == i
             end == DifferenceEnd(original, modified, i)
             length == end - start_offset
             offset_bytes == to_bytes(start_offset, OffsetFieldBytes)
             length_bytes == to_bytes(length, LengthFieldBytes)
         IN  IF offset_bytes.raised \/ length_bytes.raised
             THEN [raised |-> TRUE, patch |-> <<>>]
             ELSE ScanDifferences(original, modified, end,
                    patch_data \o Literal(offset_bytes.bytes)
                               \o Literal(length_bytes.bytes)
                               \o RSlice(modified, start_offset, end))
    ELSE ScanDifferences(original, modified,
                         NextBoundary(original, modified, i), patch_data)

\* the length test rejects only a modified image that is too short
CheckShorterOnly(original, modified) ==
    IF RLen(original) > RLen(modified) THEN [raised |-> TRUE, patch |-> <<>>]
    ELSE ScanDifferences(original, modified, 0, Literal(PATCH))

\* _generate_ips_patch: [raised, patch]; no file is written when it raises
generate_ips_patch(original, modified) ==
    IF RLen(original) # RLen(modified) THEN [raised |-> TRUE, patch |-> <<>>]
    ELSE ScanDifferences(original, modified, 0, Literal(PATCH))

MaxRuns == 3

PatchInit ==
    LET
        \* the two files are equally long, or one of them is one byte longer
        Tails == { <<>>, << <<1, 0>> >> }
        \* a stretch of both images: n positions holding byte o in the original
        \* image and byte m in the modified one
        Stretches ==
            LET
                \* run lengths around the largest values the two record fields can hold
                RunLengths ==
                    {1, 256 ^ LengthFieldBytes - 1, 256 ^ LengthFieldBytes,
                     256 ^ OffsetFieldBytes}
            IN
                     [n : RunLengths, o : {0, 1}, m : {0, 1}]
    IN
    /\ pc = "ready" /\ table = EmptyTable /\ line_num = 0
    /\ \E k \in 0..MaxRuns :
         \E stretches \in [1..k -> Stretches], tail \in Tails,
            longer \in {"original", "modified"} :
            arg = [op |-> "generate_patch",
                   original |-> [j \in 1..k |-> <<stretches[j].n, stretches[j].o>>]
                                   \o (IF longer = "original" THEN tail ELSE <<>>),
                   modified |-> [j \in 1..k |-> <<stretches[j].n, stretches[j].m>>]
                                   \o (IF longer = "modified" THEN tail ELSE <<>>)]
    /\ ret = [raised |-> FALSE, patch |-> <<>>]
    /\ IdleReinjector

GeneratePatch ==
    /\ pc = "ready"
    /\ ret' = generate_ips_patch(arg.original, arg.modified)
    /\ pc' = "patched"
    /\ UNCHANGED <<table, line_num, arg, reinjVars>>

PatchNext == GeneratePatch

SpecPatch == PatchInit /\ [][PatchNext]_vars

\* C22: on two images of different lengths the patch generation raises and
\* writes no patch file; a patch is written only for images of equal length.
C22_EqualLengthsOnly ==
    pc = "patched" =>
        /\ RLen(arg.original) # RLen(arg.modified)
             => ret.raised /\ ret.patch = <<>>
        /\ ~ret.raised => RLen(arg.original) = RLen(arg.modified)

C22_Reached ==
    /\ pc = "patched"
    /\ RLen(arg.modified) > RLen(arg.original)
    /\ RLen(arg.original) > 0
    /\ ret.raised

\* bytes n bytes of r from position lo
RBytes(r, lo, n) == [k \in 1..n |-> RAt(r, lo + k - 1)]

\* the value of big-endian digits
RECURSIVE BigEndianValue(_)
BigEndianValue(bytes) ==
    IF bytes = <<>> THEN 0
    ELSE BigEndianValue(SubSeq(bytes, 1, Len(bytes) - 1)) * 256 + bytes[Len(bytes)]

\* the records of a patch file after its header, up to the footer:
\* [ok, records]
RECURSIVE ParseRecords(_, _)
ParseRecords(rest, records) ==
    IF RLen(rest) = Len(EOF) /\ RBytes(rest, 0, Len(EOF)) = EOF
    THEN [ok |-> TRUE, records |-> records]
    ELSE IF RLen(rest) < OffsetFieldBytes + LengthFieldBytes
    THEN [ok |-> FALSE, records |-> records]
    ELSE LET offset == BigEndianValue(RBytes(rest, 0, OffsetFieldBytes))
             length == BigEndianValue(RBytes(rest, OffsetFieldBytes, LengthFieldBytes))
             body == OffsetFieldBytes + LengthFieldBytes
         IN  IF RLen(rest) < body + length
             THEN [ok |-> FALSE, records |-> records]
             ELSE ParseRecords(RDrop(rest, body + length),
                    Append(records, [offset |-> offset, length |-> length,
                                     data |-> RSlice(rest, body, body + length)]))

ParsePatch(patch) ==
    IF RLen(patch) >= Len(PATCH) /\ RBytes(patch, 0, Len(PATCH)) = PATCH
    THEN ParseRecords(RDrop(patch, Len(PATCH)), <<>>)
    ELSE [ok |-> FALSE, records |-> <<>>]

\* the image after the records from the k-th on are applied in file order
RECURSIVE ApplyRecords(_, _, _)
ApplyRecords(image, records, k) ==
    IF k > Len(records) THEN image
    ELSE ApplyRecords(RTake(image, records[k].offset) \o records[k].data
                        \o RDrop(image, records[k].offset + records[k].length),
                      records, k + 1)

SameLength == RLen(arg.original) = RLen(arg.modified)

\* C3: for two images of one length, the file generate_patch writes parses
\* as 'PATCH', records, 'EOF', and its records applied in file order to the
\* original image give the modified image; for two equal images the file is
\* 'PATCH' followed by 'EOF'.
C3_PatchRoundTrip ==
    (pc = "patched" /\ SameLength) =>
        /\ ~ret.raised
        /\ ParsePatch(ret.patch).ok
        /\ Canon(ApplyRecords(arg.original, ParsePatch(ret.patch).records, 1))
             = Canon(arg.modified)
        /\ Canon(arg.original) = Canon(arg.modified)
             => ret.patch = Literal(PATCH) \o Literal(EOF)

\* a patch was asked for two images of one length that differ in a run
\* longer than the length field can hold
C3_Reached ==
    /\ pc = "patched" /\ SameLength
    /\ \E k \in 1..Len(arg.original) :
         /\ RunByte(arg.original[k]) # RunByte(arg.modified[k])
         /\ RunLen(arg.original[k]) >= 256 ^ LengthFieldBytes

-----------------------------------------------------------------------------
(* TextDetector  (src/src/detector.py): the terminator scan and the
   de-duplication of candidates.  A confidence is a fraction [num, den]. *)

min_string_length == 3
max_string_length == 100

Max2(a, b) == IF a >= b THEN a ELSE b

ConfGreater(a, b) == a.num * b.den > b.num * a.den

IsAlphaOrSpace(glyph) ==
    LET
        \* str.isalpha() or str.isspace() on a glyph of the modelled tables
        Letters == {"A", "B", "C", "D", "E"}
    IN
    /\ glyph # <<>>
    /\ \/ \A k \in 1..Len(glyph) : glyph[k] \in Letters
       \/ \A k \in 1..Len(glyph) : glyph[k] = " "

IsPunctuation(glyph) ==
    LET
        \* glyph in ".,!?"  (a substring test)
        Punctuation == <<".", ",", "!", "?">>
    IN
    \E i \in 0..Len(Punctuation) : Slice(Punctuation, i, i + Len(glyph)) = glyph

\* the number of positions of data that satisfy P
CountOf(data, P(_)) == Cardinality({k \in 1..Len(data) : P(data[k])})

\* _calculate_text_confidence, in exact arithmetic: the score is num / den
\* with den = 80 * len(data)
calculate_text_confidence(t, data) ==
    IF Len(data) = 0 THEN [num |-> 0, den |-> 1]
    ELSE
    LET total_chars == Len(data)
        Recognized(b) == Has(t.byte_to_char, b)
        Alpha(b) == Recognized(b) /\ IsAlphaOrSpace(Get(t.byte_to_char, b))
        Punct(b) == /\ Recognized(b) /\ ~IsAlphaOrSpace(Get(t.byte_to_char, b))
                    /\ IsPunctuation(Get(t.byte_to_char, b))
        Control(b) == ~Recognized(b) /\ Has(t.control_codes, b)
        recognized_chars == CountOf(data, Recognized)
        control_codes == CountOf(data, Control)
        bonuses == 8 * CountOf(data, Alpha) * total_chars
                     + 4 * (CountOf(data, Punct) + control_codes) * total_chars
        with_rate == bonuses + 64 * (recognized_chars + control_codes)
        penalised == IF 2 * (recognized_chars + control_codes) < total_chars
                     THEN with_rate \div 2 ELSE with_rate
        with_length == IF min_string_length <= total_chars /\ total_chars <= 50
                       THEN penalised + 8 * total_chars ELSE penalised
    IN  [num |-> Min2(with_length, 80 * total_chars), den |-> 80 * total_chars]

ScanTerminators(t) ==
    LET
        \* the bytes the scan takes for terminators, in the order it tries them
        KeysWithValue(d, v) ==
            LET Sel(pair) == pair[2] = v
            IN  [k \in 1..Len(SelectSeq(d, Sel)) |-> SelectSeq(d, Sel)[k][1]]
    IN
    KeysWithValue(t.control_codes, END) \o KeysWithValue(t.control_codes, NULL)
        \o <<0, 255>>

\* a plausible slip: take everything before the terminator
ScanStartOfData(i) == 0

\* start = max(0, i - self.max_string_length)
ScanStart(i) == Max2(0, i - max_string_length)

\* the inner loop of _detect_by_terminators for one terminator: one
\* candidate for each position, in order, that holds the terminator and
\* whose string is long enough and confident enough (sample_text and the
\* other descriptive fields of a candidate are left out)
ScanFor(t, rom, terminator) ==
    LET
        \* the string the scan looks at when it meets a terminator at position i
        PotentialString(data, i) == Slice(data, ScanStart(i), i)
    IN
    LET Qualifies(i) ==
            /\ At(rom, i) = terminator
            /\ Len(PotentialString(rom, i)) >= min_string_length
            /\ LET confidence == calculate_text_confidence(t, PotentialString(rom, i))
               IN  5 * confidence.num > 2 * confidence.den
        hits == SelectSeq([k \in 1..Len(rom) |-> k - 1], Qualifies)
    IN  [k \in 1..Len(hits) |->
            [address |-> ScanStart(hits[k]),
             length |-> Len(PotentialString(rom, hits[k])),
             confidence |-> calculate_text_confidence(t, PotentialString(rom, hits[k]))]]

\* the outer loop of _detect_by_terminators from the k-th terminator
RECURSIVE ScanAll(_, _, _, _)
ScanAll(t, rom, k, candidates) ==
    IF k > Len(ScanTerminators(t)) THEN candidates
    ELSE ScanAll(t, rom, k + 1,
                 candidates \o ScanFor(t, rom, ScanTerminators(t)[k]))

detect_by_terminators(t, rom) == ScanAll(t, rom, 1, <<>>)

RECURSIVE SortByAddress(_)
SortByAddress(cs) ==
    LET
        \* candidates.sort(key=lambda x: x.address): a stable insertion sort
        RECURSIVE InsertByAddress(_, _)
        InsertByAddress(sorted, c) ==
            IF sorted = <<>> THEN <<c>>
            ELSE IF sorted[Len(sorted)].address <= c.address THEN Append(sorted, c)
            ELSE Append(InsertByAddress(SubSeq(sorted, 1, Len(sorted) - 1), c),
                        sorted[Len(sorted)])
    IN
    IF cs = <<>> THEN <<>>
    ELSE InsertByAddress(SortByAddress(SubSeq(cs, 1, Len(cs) - 1)), cs[Len(cs)])

overlap_length(candidate, existing) ==
    LET overlap_start == Max2(candidate.address, existing.address)
        overlap_end == Min2(candidate.address + candidate.length,
                            existing.address + existing.length)
    IN  Max2(0, overlap_end - overlap_start)

\* overlap_length > min(candidate.length, existing.length) * 0.5
OverlapsMuch(candidate, existing) ==
    2 * overlap_length(candidate, existing)
        > Min2(candidate.length, existing.length)

\* list.remove(x): drop the first element equal to x
RemoveFirst(list, x) ==
    LET j == CHOOSE j \in 1..Len(list) :
                 list[j] = x /\ \A i \in 1..(j - 1) : list[i] # x
    IN  SubSeq(list, 1, j - 1) \o SubSeq(list, j + 1, Len(list))

\* a plausible slip: the candidate found first always stays
KeepExisting(result, candidate) ==
    IF \E k \in 1..Len(result) : OverlapsMuch(candidate, result[k])
    THEN result ELSE Append(result, candidate)

\* the body of the outer loop of _deduplicate_candidates: the inner loop
\* stops at the first existing candidate that overlaps by more than half
DedupInto(result, candidate) ==
    IF \A k \in 1..Len(result) : ~OverlapsMuch(candidate, result[k])
    THEN Append(result, candidate)
    ELSE LET k == CHOOSE k \in 1..Len(result) :
                    /\ OverlapsMuch(candidate, result[k])
                    /\ \A i \in 1..(k - 1) : ~OverlapsMuch(candidate, result[i])
         IN  IF ConfGreater(candidate.confidence, result[k].confidence)
             THEN Append(RemoveFirst(result, result[k]), candidate)
             ELSE result

RECURSIVE DedupFrom(_, _, _)
DedupFrom(sorted, i, result) ==
    IF i > Len(sorted) THEN result
    ELSE DedupFrom(sorted, i + 1, DedupInto(result, sorted[i]))

deduplicate_candidates(candidates) ==
    IF candidates = <<>> THEN candidates
    ELSE DedupFrom(SortByAddress(candidates), 1, <<>>)

MaxCands == 3

DetectInit ==
    LET
        Candidates ==
            LET
                \* candidates for the de-duplication
                Confidences == {[num |-> 50, den |-> 100], [num |-> 70, den |-> 100]}
            IN
                      [address : 0..2, length : {0, 2, 4}, confidence : Confidences]
        ScanStreams ==
            LET
                ScanTails == { <<>>, <<65, 0>>, <<65, 65, 65, 253>> }
                ScanEnds == {0, 253, 255}
                ScanBodies == {65, 153}
                \* streams for the scan: a run of one byte, a terminator, and a tail; the
                \* run lengths lie around min_string_length and max_string_length
                ScanLengths ==
                    {0, min_string_length - 1, min_string_length, max_string_length,
                     max_string_length + 1}
            IN
            {[k \in 1..n |-> b] \o <<e>> \o tail :
                n \in ScanLengths, b \in ScanBodies, e \in ScanEnds, tail \in ScanTails}
    IN
    /\ pc = "ready" /\ table \in FixedTables /\ line_num = 0
    /\ \/ \E rom \in ScanStreams :
            arg = [op |-> "detect_by_terminators", rom_data |-> rom]
       \/ \E cs \in SeqsUpTo(Candidates, MaxCands) :
            arg = [op |-> "deduplicate_candidates", candidates |-> cs]
    /\ ret = NoCall
    /\ IdleReinjector

DetectByTerminators ==
    /\ pc = "ready" /\ arg.op = "detect_by_terminators"
    /\ ret' = detect_by_terminators(table, arg.rom_data)
    /\ pc' = "scanned"
    /\ UNCHANGED <<table, line_num, arg, reinjVars>>

DeduplicateCandidates ==
    /\ pc = "ready" /\ arg.op = "deduplicate_candidates"
    /\ ret' = deduplicate_candidates(arg.candidates)
    /\ pc' = "deduplicated"
    /\ UNCHANGED <<table, line_num, arg, reinjVars>>

DetectNext == DetectByTerminators \/ DeduplicateCandidates

SpecDetect == DetectInit /\ [][DetectNext]_vars

\* C14: for two candidates that overlap by more than half of the shorter
\* one, _deduplicate_candidates returns exactly one candidate, the one of
\* higher confidence, whichever of the two has the lower address.
C14_KeepsHigherConfidence ==
    (/\ pc = "deduplicated" /\ Len(arg.candidates) = 2
     /\ OverlapsMuch(arg.candidates[1], arg.candidates[2]))
        => /\ Len(ret) = 1
           /\ ret[1] \in {arg.candidates[1], arg.candidates[2]}
           /\ \A k \in 1..2 :
                ~ConfGreater(arg.candidates[k].confidence, ret[1].confidence)

\* the candidate at the higher address had the higher confidence and is
\* the one returned
C14_Reached ==
    /\ pc = "deduplicated" /\ Len(arg.candidates) = 2
    /\ OverlapsMuch(arg.candidates[1], arg.candidates[2])
    /\ arg.candidates[1].address < arg.candidates[2].address
    /\ ConfGreater(arg.candidates[2].confidence, arg.candidates[1].confidence)
    /\ ret = <<arg.candidates[2]>>

\* C25: no two candidates that _deduplicate_candidates returns overlap by
\* more than half of the length of the shorter one.
C25_NoOverlapLeft ==
    pc = "deduplicated" =>
        \A j \in 1..Len(ret) : \A k \in 1..Len(ret) :
            j # k => ~OverlapsMuch(ret[j], ret[k])

C25_Reached ==
    /\ pc = "deduplicated" /\ Len(arg.candidates) = 3
    /\ Len(ret) = 2
    /\ \E k \in 1..3 : \A j \in 1..2 : ret[j] # arg.candidates[k]
    /\ \E k \in 1..3 : ConfGreater(arg.candidates[k].confidence,
                                   arg.candidates[1].confidence)

IsScanTerminator(t, b) ==
    \/ b \in {0, 255}
    \/ Has(t.control_codes, b) /\ Get(t.control_codes, b) \in {END, NULL}

\* C15: every candidate of the terminator scan has
\* min_string_length <= length <= max_string_length, lies inside the stream
\* and ends exactly at the position of a terminator byte.
C15_ScanBounds ==
    pc = "scanned" =>
        \A k \in 1..Len(ret) :
            /\ min_string_length <= ret[k].length
            /\ ret[k].length <= max_string_length
            /\ 0 <= ret[k].address
            /\ ret[k].address + ret[k].length < Len(arg.rom_data)
            /\ IsScanTerminator(table, At(arg.rom_data, ret[k].address + ret[k].length))

\* the scan produced a candidate that starts after the beginning of the
\* stream because the terminator is more than max_string_length in
C15_Reached ==
    /\ pc = "scanned"
    /\ \E k \in 1..Len(ret) :
         ret[k].address > 0 /\ ret[k].length = max_string_length

-----------------------------------------------------------------------------
(* TextExtractor  (src/src/extractor.py): the fixed-location and the
   pointer-table strategies *)

\* terminators = {0x00, 0xFF} plus the bytes mapped to <END> or <NULL>
ExtractorTerminators(t) ==
    {0, 255} \cup {b \in Keys(t.control_codes) : Get(t.control_codes, b) \in {END, NULL}}

\* the while loop of _extract_until_terminator: the position it stops at
RECURSIVE TerminatorFrom(_, _, _)
TerminatorFrom(t, rom, current_pos) ==
    IF current_pos < Len(rom) /\ At(rom, current_pos) \notin ExtractorTerminators(t)
    THEN TerminatorFrom(t, rom, current_pos + 1)
    ELSE current_pos

\* a plausible slip: return the terminator with the string
ExtractThroughTerminator(t, rom, start_address) ==
    Slice(rom, start_address, TerminatorFrom(t, rom, start_address) + 1)

\* _extract_until_terminator
extract_until_terminator(t, rom, start_address) ==
    Slice(rom, start_address, TerminatorFrom(t, rom, start_address))

\* TextExtractor._read_pointer_table from entry i: the targets of the
\* entries that lie inside the image; [raised, pointers]
RECURSIVE ExtractorPointersFrom(_, _, _, _, _, _, _)
ExtractorPointersFrom(rom, address, count, format_type, base_offset, i, acc) ==
    IF i >= count THEN [raised |-> FALSE, pointers |-> acc]
    ELSE LET ptr_addr == address + i * 2
             first == At(rom, ptr_addr)
             second == At(rom, ptr_addr + 1)
             pointer == IF format_type = LE16 THEN second * 256 + first
                        ELSE first * 256 + second
         IN  ExtractorPointersFrom(rom, address, count, format_type, base_offset,
                i + 1,
                IF ptr_addr + 1 < Len(rom)
                THEN Append(acc, pointer + base_offset) ELSE acc)

extractor_read_pointer_table(rom, address, count, format_type, base_offset) ==
    IF format_type \notin {LE16, BE16} THEN [raised |-> TRUE, pointers |-> <<>>]
    ELSE ExtractorPointersFrom(rom, address, count, format_type, base_offset,
                               0, <<>>)

\* a plausible slip: number the strings instead of the table entries
PointerAddressOfString(table_address, i, strings) == table_address + Len(strings) * 2

\* pointer_address = table_address + (i * 2)
PointerAddressOf(table_address, i, strings) == table_address + i * 2

\* the for loop of _extract_pointer_table from the i-th pointer read
RECURSIVE ExtractPointersFrom(_, _, _, _, _, _)
ExtractPointersFrom(t, rom, table_address, ptrs, i, strings) ==
    IF i >= Len(ptrs) THEN strings
    ELSE LET pointer == At(ptrs, i)
             original_bytes == extract_until_terminator(t, rom, pointer)
         IN  IF pointer >= Len(rom) \/ original_bytes = <<>>
             THEN ExtractPointersFrom(t, rom, table_address, ptrs, i + 1, strings)
             ELSE ExtractPointersFrom(t, rom, table_address, ptrs, i + 1,
                    Append(strings,
                      [address |-> pointer,
                       original_bytes |-> original_bytes,
                       decoded_text |-> decode_bytes(t, original_bytes, 0, <<>>).text,
                       length |-> Len(original_bytes),
                       pointer_address |-> <<PointerAddressOf(table_address, i, strings)>>,
                       string_id |-> <<"ptr", i + 1>>]))

\* _extract_pointer_table: [raised, strings]
extract_pointer_table(t, rom, cfg) ==
    LET r == extractor_read_pointer_table(rom, cfg.address, cfg.count,
                                          cfg.format, cfg.base_offset)
    IN  IF r.raised THEN [raised |-> TRUE, strings |-> <<>>]
        ELSE [raised |-> FALSE,
              strings |-> ExtractPointersFrom(t, rom, cfg.address, r.pointers,
                                              0, <<>>)]

\* the for loop of _extract_fixed_locations from the i-th configured entry;
\* an entry's length is <<>> when it has none
RECURSIVE ExtractFixedFrom(_, _, _, _, _)
ExtractFixedFrom(t, rom, string_configs, i, strings) ==
    IF i >= Len(string_configs) THEN strings
    ELSE LET address == At(string_configs, i).address
             length == At(string_configs, i).length
             original_bytes ==
                 IF length # <<>> /\ length[1] # 0
                 THEN Slice(rom, address, Min2(address + length[1], Len(rom)))
                 ELSE extract_until_terminator(t, rom, address)
         IN  IF address >= Len(rom) \/ original_bytes = <<>>
             THEN ExtractFixedFrom(t, rom, string_configs, i + 1, strings)
             ELSE ExtractFixedFrom(t, rom, string_configs, i + 1,
                    Append(strings,
                      [address |-> address,
                       original_bytes |-> original_bytes,
                       decoded_text |-> decode_bytes(t, original_bytes, 0, <<>>).text,
                       length |-> Len(original_bytes),
                       pointer_address |-> <<>>,
                       string_id |-> <<"string", i + 1>>]))

extract_fixed_locations(t, rom, string_configs) ==
    [raised |-> FALSE,
     strings |-> ExtractFixedFrom(t, rom, string_configs, 0, <<>>)]

\* images for the extractor: a terminator, a plain byte that can also be
\* the low byte of a pointer, and the byte mapped to <END>
ImageLen == RomLen + 2

ExtractInit ==
    LET
        \* entries of config['text_detection']['strings']
        StringConfigs == [address : 0..ImageLen, length : {<<>>, <<0>>, <<2>>}]
        ExtractImages ==
            LET
                ExtractBytes == {0, 2, 253}
            IN
                         [1..ImageLen -> ExtractBytes]
    IN
    /\ pc = "extract" /\ table \in FixedTables /\ line_num = 0 /\ IdleCall
    /\ original_data \in ExtractImages
    /\ \/ \E entry \in StringConfigs :
            config = [method |-> "fixed_locations", strings |-> <<entry>>]
       \/ \E address \in 0..ImageLen, count \in 1..MaxPtrs,
             format_type \in {LE16, BE16}, base_offset \in BaseOffsets :
            config = [method |-> "pointer_table",
                      pointer_table |-> [address |-> address, count |-> count,
                                         format |-> format_type,
                                         base_offset |-> base_offset]]
    /\ rom_data = <<>> /\ translated_strings = <<>> /\ results = NoResults
    /\ idx = 0 /\ IdlePointers

\* extract_from_rom with method fixed_locations
ExtractFixedLocations ==
    /\ pc = "extract" /\ config.method = "fixed_locations"
    /\ ret' = extract_fixed_locations(table, original_data, config.strings)
    /\ pc' = "extracted"
    /\ UNCHANGED <<table, line_num, arg, reinjVars>>

\* extract_from_rom with method pointer_table
ExtractPointerTable ==
    /\ pc = "extract" /\ config.method = "pointer_table"
    /\ ret' = extract_pointer_table(table, original_data, config.pointer_table)
    /\ pc' = "extracted"
    /\ UNCHANGED <<table, line_num, arg, reinjVars>>

ExtractNext == ExtractFixedLocations \/ ExtractPointerTable

SpecExtract == ExtractInit /\ [][ExtractNext]_vars

\* the string was cut at a terminator, not at a configured length
UntilTerminator(k) ==
    \/ config.method = "pointer_table"
    \/ /\ config.method = "fixed_locations"
       /\ LET length == config.strings[ret.strings[k].string_id[2]].length
          IN  length = <<>> \/ length = <<0>>

\* the first position at or after start that holds 0x00, 0xFF or a byte
\* mapped to <END>/<NULL>; the image length if there is none
FirstStop(t, rom, start) ==
    LET stops == {q \in start..(Len(rom) - 1) :
                     \/ At(rom, q) \in {0, 255}
                     \/ /\ Has(t.control_codes, At(rom, q))
                        /\ Get(t.control_codes, At(rom, q)) \in {END, NULL}}
    IN  IF stops = {} THEN Len(rom)
        ELSE CHOOSE q \in stops : \A r \in stops : q <= r

\* C16: for a fixed-location entry without a length and for every
\* pointer-table target, the extracted bytes are the bytes from the start
\* address up to, and excluding, the first terminator at or after it (or the
\* end of the image), so they contain no terminator byte.
C16_UntilTerminator ==
    pc = "extracted" =>
        \A k \in 1..Len(ret.strings) :
            UntilTerminator(k) =>
                LET string == ret.strings[k]
                IN  /\ string.original_bytes =
                         Slice(original_data, string.address,
                               FirstStop(table, original_data, string.address))
                    /\ \A j \in 1..Len(string.original_bytes) :
                         string.original_bytes[j] \notin ExtractorTerminators(table)

\* a string was extracted up to a terminator that lies inside the image
C16_Reached ==
    /\ pc = "extracted"
    /\ \E k \in 1..Len(ret.strings) :
         /\ UntilTerminator(k)
         /\ ret.strings[k].address + ret.strings[k].length < Len(original_data)

\* the target of the table entry stored at pointer_address
TargetStoredAt(pointer_address) ==
    read_16bit_pointer(original_data, pointer_address,
                       config.pointer_table.format = LE16).value
        + config.pointer_table.base_offset

\* C17: in the pointer-table strategy, the 16-bit pointer stored at
\* s.pointer_address, read in the configured byte order, plus the base
\* offset is s.address, also when earlier pointers of the table were skipped.
C17_OwnPointer ==
    (pc = "extracted" /\ config.method = "pointer_table") =>
        \A k \in 1..Len(ret.strings) :
            TargetStoredAt(ret.strings[k].pointer_address[1]) = ret.strings[k].address

\* a string was extracted from the second entry after the first entry was
\* skipped
C17_Reached ==
    /\ pc = "extracted" /\ config.method = "pointer_table"
    /\ Len(ret.strings) = 1
    /\ ret.strings[1].pointer_address[1] = config.pointer_table.address + 2

\* the position at which the extractor's scan from address stops
ExtractorStop(address) == TerminatorFrom(table, original_data, address)

\* C29: for a pointer whose target holds no translated string, the payload
\* _extract_original_string returns is what the extractor's
\* _extract_until_terminator returns for that address, followed by the one
\* terminator byte that ended the extractor's scan.
C29_SameStringEnd ==
    pc = "compact" =>
        \A i \in 1..Len(pointers) :
            (/\ ~HasStringAt(translated_strings, pointers[i].target_address)
             /\ pointers[i].target_address < Len(original_data)
             /\ ExtractorStop(pointers[i].target_address) < Len(original_data))
            => new_strings_data[i] =
                 extract_until_terminator(table, original_data,
                                          pointers[i].target_address)
                 \o <<At(original_data,
                         ExtractorStop(pointers[i].target_address))>>

C29_Reached ==
    /\ pc = "compact" /\ idx = 0
    /\ \E i \in 1..Len(pointers) :
         /\ ~HasStringAt(translated_strings, pointers[i].target_address)
         /\ ExtractorStop(pointers[i].target_address) < Len(original_data)
         /\ ExtractorStop(pointers[i].target_address) > pointers[i].target_address
         /\ ~Has(table.control_codes,
                 At(original_data, ExtractorStop(pointers[i].target_address)))

-----------------------------------------------------------------------------
(* PointerUtils.write_16bit_pointer and update_pointer_table called on
   their own.  original_data keeps the buffer as it was before the call. *)

\* targets around the limits of one and of two bytes
WriteTargets == {0, 1, 255, 256, 4660, 65535, 65536}

\* pointer lists as read_pointer_table builds them: consecutive two-byte
\* entries from a table address, each with its recorded target and format
RecordedTargets == {4, 5}
PointerLists ==
    UNION {{[i \in 1..n |-> [address |-> table_address + (i - 1) * 2,
                             target_address |-> targets[i],
                             format_type |-> formats[i],
                             size_bytes |-> 2]] :
              table_address \in 0..1,
              targets \in [1..n -> RecordedTargets],
              formats \in [1..n -> {LE16, BE16}]} : n \in 0..MaxPtrs}

AddressMaps ==
    LET
        \* address_changes: none, one or both recorded targets with a new address
        NewTargets == {258, 65536}
    IN
    {<<>>} \cup {<<<<t, v>>>> : t \in RecordedTargets, v \in NewTargets}
           \cup {<<<<4, v>>, <<5, w>>>> : v \in NewTargets, w \in NewTargets}

UtilInit ==
    LET
        Buffers == UNION {[1..n -> {0, 65}] : n \in 0..RomLen}
    IN
    /\ pc = "ready" /\ table = EmptyTable /\ line_num = 0 /\ IdleCall
    /\ original_data \in Buffers \cup [1..(2 * MaxPtrs + 1) -> {0}]
    /\ rom_data = original_data
    /\ translated_strings = <<>> /\ results = NoResults /\ idx = 0
    /\ config = NoConfig /\ IdlePointers

Write16(address, target, little_endian) ==
    /\ pc = "ready"
    /\ LET w == write_16bit_pointer(rom_data, address, target, little_endian)
       IN  /\ rom_data' = w.rom
           /\ ret' = [raised |-> w.raised]
    /\ arg' = [op |-> "write_16bit_pointer", address |-> address,
               target |-> target, little_endian |-> little_endian]
    /\ pc' = "write_16bit_pointer"
    /\ UNCHANGED <<table, line_num, original_data, translated_strings, results,
                   idx, config, ptrVars>>

UpdateTable(ps, changes) ==
    /\ pc = "ready"
    /\ LET u == update_pointer_table(rom_data, ps, changes)
       IN  /\ rom_data' = u.rom
           /\ ret' = [raised |-> u.raised]
    /\ arg' = [op |-> "update_pointer_table", pointers |-> ps,
               address_changes |-> changes]
    /\ pc' = "update_pointer_table"
    /\ UNCHANGED <<table, line_num, original_data, translated_strings, results,
                   idx, config, ptrVars>>

UtilNext ==
    \/ \E address \in (-2)..(RomLen + 1), target \in WriteTargets,
          little_endian \in BOOLEAN :
            Write16(address, target, little_endian)
    \/ \E ps \in PointerLists, changes \in AddressMaps : UpdateTable(ps, changes)

SpecPtrUtil == UtilInit /\ [][UtilNext]_vars

\* the two bytes at [address, address + 1] are both inside the buffer
BothInside(address) == 0 <= address /\ address + 1 < Len(original_data)

\* the bytes of value v in the given byte order
TwoBytes(v, little_endian) ==
    IF little_endian THEN <<v % 256, v \div 256>> ELSE <<v \div 256, v % 256>>

\* C18: write_16bit_pointer fails, leaving the buffer unchanged, exactly
\* when the target exceeds 0xFFFF or the two bytes at [address, address + 1]
\* are not both inside the buffer; otherwise it succeeds and changes only
\* those two bytes.
C18_WriteChecked ==
    pc = "write_16bit_pointer" =>
        IF arg.target > 65535 \/ ~BothInside(arg.address)
        THEN ret.raised /\ rom_data = original_data
        ELSE /\ ~ret.raised
             /\ Len(rom_data) = Len(original_data)
             /\ Slice(rom_data, arg.address, arg.address + 2)
                  = TwoBytes(arg.target, arg.little_endian)
             /\ \A i \in 0..(Len(rom_data) - 1) :
                  i \notin {arg.address, arg.address + 1}
                      => At(rom_data, i) = At(original_data, i)

\* a write inside the buffer succeeded and a write past its end failed
C18_Reached ==
    /\ pc = "write_16bit_pointer"
    /\ \/ /\ BothInside(arg.address) /\ arg.target = 4660 /\ ~ret.raised
          /\ rom_data # original_data
       \/ arg.address + 1 >= Len(original_data) /\ ret.raised

\* C19: after update_pointer_table returns, every pointer whose recorded
\* target is a key of the map holds map[target] at its address in its own
\* byte order, and every other byte of the buffer is unchanged.
C19_OnlyMappedPointers ==
    (pc = "update_pointer_table" /\ ~ret.raised) =>
        LET ps == arg.pointers
            Mapped(i) == Has(arg.address_changes, ps[i].target_address)
        IN  /\ Len(rom_data) = Len(original_data)
            /\ \A i \in 1..Len(ps) :
                 Mapped(i) =>
                    Slice(rom_data, ps[i].address, ps[i].address + 2)
                      = TwoBytes(Get(arg.address_changes, ps[i].target_address),
                                 ps[i].format_type = LE16)
            /\ \A a \in 0..(Len(rom_data) - 1) :
                 (\A i \in 1..Len(ps) :
                     Mapped(i) => a \notin {ps[i].address, ps[i].address + 1})
                     => At(rom_data, a) = At(original_data, a)

\* a table of two pointers was updated: one pointer's target is a key of
\* the map, the other's is not
C19_Reached ==
    /\ pc = "update_pointer_table" /\ ~ret.raised
    /\ Len(arg.pointers) = 2
    /\ Has(arg.address_changes, arg.pointers[2].target_address)
    /\ ~Has(arg.address_changes, arg.pointers[1].target_address)
    /\ rom_data # original_data

-----------------------------------------------------------------------------
(* CHRAnalyzer.analyze_rom: the iNES header, the tile bank and the analysis
   returned.  The image is kept run-length encoded, as the patch images
   are, because one program bank alone is 16384 bytes.  The fields of the
   analyzer object left by the call (prg_size, chr_size, mapper, chr_data)
   are kept in config, self.rom_data in rom_data and the bytes of the file
   in original_data.  Of the analysis the type, the sizes, the three tile
   counts and the warnings are kept; font_regions and the estimated charset
   are computed from the tile list alone and raise nothing. *)

INES_HEADER_SIZE == 16
INES_MAGIC == <<78, 69, 83, 26>>
PRG_ROM_UNIT == 16384
CHR_ROM_UNIT == 8192
TILE_SIZE == 16

NewAnalyzer == [prg_size |-> 0, chr_size |-> 0, mapper |-> 0, chr_data |-> <<>>]

\* header[:4], for an image of at least four bytes
Magic(rom) == [k \in 1..4 |-> RAt(rom, k - 1)]

\* _parse_ines_header: the fields it leaves in the object, and its result
parse_ines_header(self, rom) ==
    IF RLen(rom) < INES_HEADER_SIZE THEN [ok |-> FALSE, self |-> self]
    ELSE IF Magic(rom) # INES_MAGIC THEN [ok |-> FALSE, self |-> self]
    ELSE LET prg_units == RAt(rom, 4)
             chr_units == RAt(rom, 5)
             flags6 == RAt(rom, 6)
             flags7 == RAt(rom, 7)
         IN  [ok |-> TRUE,
              self |-> [self EXCEPT
                          !.prg_size = prg_units * PRG_ROM_UNIT,
                          !.chr_size = chr_units * CHR_ROM_UNIT,
                          !.mapper = (flags7 \div 16) * 16 + (flags6 \div 16)]]

\* _extract_chr_data
extract_chr_data(self, rom) ==
    LET chr_start == INES_HEADER_SIZE + self.prg_size
        chr_end == chr_start + self.chr_size
    IN  IF chr_end <= RLen(rom)
        THEN [self EXCEPT !.chr_data = RSlice(rom, chr_start, chr_end)]
        ELSE [self EXCEPT !.chr_data = <<>>]

\* _get_tile_data
get_tile_data(self, tile_index) ==
    LET
        \* bytes(TILE_SIZE)
        EmptyTile == << <<TILE_SIZE, 0>> >>
    IN
    LET start == tile_index * TILE_SIZE
        end == start + TILE_SIZE
    IN  IF end > RLen(self.chr_data) THEN EmptyTile
        ELSE Canon(RSlice(self.chr_data, start, end))

\* _analyze_chr
analyze_chr(self) ==
    LET
        \* TileInfo.is_blank as _analyze_tile sets it: all(b == 0 for b in tile_data)
        is_blank(tile_data) == \A k \in 1..Len(tile_data) : RunByte(tile_data[k]) = 0
    IN
    IF self.chr_size = 0
    THEN [raised |-> FALSE, chr_type |-> "chr_ram", chr_size |-> 0,
          total_tiles |-> 0, blank_tiles |-> 0, unique_tiles |-> 0,
          warnings |-> <<"CHR RAM detected - graphics are loaded at runtime">>]
    ELSE LET total_tiles == self.chr_size \div TILE_SIZE
             tiles == [k \in 1..total_tiles |-> get_tile_data(self, k - 1)]
             blank == {k \in 1..total_tiles : is_blank(tiles[k])}
             pattern_hashes == {tiles[k] : k \in (1..total_tiles) \ blank}
         IN  [raised |-> FALSE, chr_type |-> "chr_rom",
              chr_size |-> self.chr_size, total_tiles |-> total_tiles,
              blank_tiles |-> Cardinality(blank),
              unique_tiles |-> Cardinality(pattern_hashes),
              warnings |-> <<>>]

\* analyze_rom, for a file that exists: the object afterwards and the result
analyze_rom(rom) ==
    LET parsed == parse_ines_header(NewAnalyzer, rom)
    IN  IF ~parsed.ok
        THEN [self |-> parsed.self,
              result |-> [raised |-> FALSE, chr_type |-> "unknown",
                          chr_size |-> 0, total_tiles |-> 0,
                          blank_tiles |-> 0, unique_tiles |-> 0,
                          warnings |-> <<"Failed to parse iNES header">>]]
        ELSE LET self == extract_chr_data(parsed.self, rom)
             IN  [self |-> self, result |-> analyze_chr(self)]

\* Files: a sixteen-byte header followed by up to MaxBodyRuns stretches of
\* one byte value, possibly cut short.
MaxUnits == 1
MaxBodyRuns == 2

AnalyzeInit ==
    LET
        RomFiles ==
            LET
                Cuts == {3, INES_HEADER_SIZE - 1}
                Bodies ==
                    LET
                        BodyRuns ==
                            { <<PRG_ROM_UNIT, 0>>, <<CHR_ROM_UNIT, 1>>, <<CHR_ROM_UNIT - TILE_SIZE, 0>>,
                              <<TILE_SIZE, 2>>, <<TILE_SIZE - 1, 1>> }
                    IN
                          UNION { [1..n -> BodyRuns] : n \in 0..MaxBodyRuns }
                Headers ==
                    { Literal(magic \o <<prg_units, chr_units, flags6, 0>>) \o << <<8, 0>> >> :
                        magic \in {INES_MAGIC, <<73, 78, 86, 65>>},
                        prg_units \in 0..MaxUnits, chr_units \in 0..MaxUnits,
                        flags6 \in {0, 16} }
            IN
            { header \o body : header \in Headers, body \in Bodies }
                \cup { RTake(header, cut) : header \in Headers, cut \in Cuts }
    IN
    /\ pc = "ready" /\ table = EmptyTable /\ line_num = 0 /\ IdleCall
    /\ original_data \in RomFiles
    /\ rom_data = <<>> /\ config = NewAnalyzer
    /\ translated_strings = <<>> /\ results = NoResults /\ idx = 0
    /\ IdlePointers

\* analyze_rom(rom_path)
AnalyzeRom(exists) ==
    /\ pc = "ready"
    /\ pc' = "analyze_rom"
    /\ arg' = [op |-> "analyze_rom", exists |-> exists]
    /\ IF ~exists
       THEN /\ ret' = [raised |-> TRUE, error |-> "FileNotFoundError"]
            /\ UNCHANGED <<rom_data, config>>
       ELSE LET r == analyze_rom(original_data)
            IN  /\ rom_data' = original_data
                /\ config' = r.self
                /\ ret' = r.result
    /\ UNCHANGED <<table, line_num, original_data, translated_strings, results,
                   idx, ptrVars>>

AnalyzeNext == \E exists \in BOOLEAN : AnalyzeRom(exists)

SpecAnalyze == AnalyzeInit /\ [][AnalyzeNext]_vars

\* an image the header of which cannot be read, or which is shorter than
\* the header and the banks the header declares
ShortHeader(rom) == RLen(rom) < 16
WrongMagic(rom) == ~ShortHeader(rom) /\ Magic(rom) # <<78, 69, 83, 26>>
DeclaredEnd(rom) == 16 + RAt(rom, 4) * 16384 + RAt(rom, 5) * 8192
TruncatedImage(rom) ==
    ~ShortHeader(rom) /\ ~WrongMagic(rom) /\ DeclaredEnd(rom) > RLen(rom)
Analyzed == pc = "analyze_rom" /\ arg.exists

\* C20: analysing a file that exists raises nothing, and for an image that
\* is shorter than the header, has a wrong magic or is too short for the
\* banks its header declares the analysis is of type unknown and carries a
\* warning; a chr_rom analysis counts only tiles that lie in the image.
C20_FailsSoft ==
    Analyzed =>
        /\ ~ret.raised
        /\ (ShortHeader(original_data) \/ WrongMagic(original_data)
              \/ TruncatedImage(original_data))
              => ret.chr_type = "unknown" /\ Len(ret.warnings) >= 1
        /\ ret.chr_type = "chr_rom"
              => DeclaredEnd(original_data) <= RLen(original_data)

C20_Reached ==
    /\ Analyzed
    /\ TruncatedImage(original_data)
    /\ RAt(original_data, 5) > 0
    /\ ~ret.raised

-----------------------------------------------------------------------------
(* CHRAnalyzer._detect_font_regions and _estimate_charset_size, as
   _analyze_chr calls them on the tile list it has built: tile k of the
   list has index k.  Of a TileInfo the index and the two flags the scan
   reads are kept, of a FontRegion everything but the notes. *)

\* _classify_region, for a run that is not empty
classify_region(start, tiles) ==
    [start_tile |-> start, end_tile |-> tiles[Len(tiles)].index,
     tile_count |-> Len(tiles), estimated_chars |-> Len(tiles)]

\* the scan forgets the run that is still open after the last tile
DropLastRun(current_start, current_run, regions) == regions

\* "Handle last run", after the loop (current_start None is written -1)
LastRun(current_start, current_run, regions) ==
    IF Len(current_run) >= 16 /\ current_start # -1
    THEN Append(regions, classify_region(current_start, current_run))
    ELSE regions

\* _detect_font_regions
detect_font_regions(tiles) ==
    LET RECURSIVE Scan(_, _, _, _)
        \* the for loop from tile k on
        Scan(k, current_start, current_run, regions) ==
            IF k > Len(tiles) THEN LastRun(current_start, current_run, regions)
            ELSE IF ~tiles[k].is_blank /\ ~tiles[k].is_solid
            THEN Scan(k + 1,
                      IF current_start = -1 THEN tiles[k].index
                      ELSE current_start,
                      Append(current_run, tiles[k]), regions)
            ELSE Scan(k + 1, -1, <<>>,
                      IF Len(current_run) >= 16
                      THEN Append(regions,
                                  classify_region(current_start, current_run))
                      ELSE regions)
    IN  IF tiles = <<>> THEN <<>> ELSE Scan(1, -1, <<>>, <<>>)

\* _estimate_charset_size
estimate_charset_size(regions) ==
    LET RECURSIVE Sum(_)
        Sum(k) == IF k = 0 THEN 0 ELSE regions[k].estimated_chars + Sum(k - 1)
    IN  IF regions = <<>> THEN 0 ELSE Sum(Len(regions))

MaxStretches == 3

FontInit ==
    /\ pc = "ready" /\ table = EmptyTable /\ line_num = 0 /\ IdleCall
    /\ IdleReinjector

\* the two calls at the end of _analyze_chr, on a tile list made of up to
\* MaxStretches stretches of blank, solid or other tiles
DetectFontRegions(stretches) ==
    LET RECURSIVE Kinds(_)
        Kinds(k) ==
            IF k = 0 THEN <<>>
            ELSE Kinds(k - 1) \o [j \in 1..stretches[k][2] |-> stretches[k][1]]
        kinds == Kinds(Len(stretches))
        tiles == [k \in 1..Len(kinds) |->
                    [index |-> k - 1, is_blank |-> kinds[k] = "blank",
                     is_solid |-> kinds[k] = "solid"]]
        font_regions == detect_font_regions(tiles)
    IN  /\ pc = "ready"
        /\ pc' = "font_regions"
        /\ arg' = [op |-> "detect_font_regions", tiles |-> tiles]
        /\ ret' = [font_regions |-> font_regions,
                   estimated_charset_size |->
                       estimate_charset_size(font_regions)]
        /\ UNCHANGED <<table, line_num, reinjVars>>

FontNext ==
    \E n \in 0..MaxStretches :
        \E stretches \in [1..n -> {"blank", "solid", "glyph"} \X {1, 15, 16}] :
            DetectFontRegions(stretches)

SpecFont == FontInit /\ [][FontNext]_vars

\* tile k of the list (1-based) is neither blank nor solid
Glyph(k) ==
    /\ k \in 1..Len(arg.tiles)
    /\ ~arg.tiles[k].is_blank /\ ~arg.tiles[k].is_solid

\* the maximal runs of such tiles that are at least 16 long, as pairs of the
\* indices of their first and last tile
LongRuns ==
    { <<a - 1, b - 1>> : a \in 1..Len(arg.tiles), b \in 1..Len(arg.tiles) } \cap
    { <<a - 1, b - 1>> : a \in { k \in 1..Len(arg.tiles) : Glyph(k) /\ ~Glyph(k - 1) },
                         b \in { k \in 1..Len(arg.tiles) : Glyph(k) /\ ~Glyph(k + 1) } }
    \cap { r \in (0..Len(arg.tiles)) \X (0..Len(arg.tiles)) :
             /\ r[2] - r[1] + 1 >= 16
             /\ \A k \in (r[1] + 1)..(r[2] + 1) : Glyph(k) }

\* C21: the font regions are exactly the maximal runs, at least 16 long, of
\* tiles that are neither blank nor solid: every region counts
\* end_tile - start_tile + 1 >= 16 tiles, the regions are disjoint and
\* ascending, no such run is missing, and the estimated charset size is the
\* sum of the tile counts.
C21_FontRegions ==
    pc = "font_regions" =>
        LET regions == ret.font_regions
        IN  /\ \A k \in 1..Len(regions) :
                 /\ regions[k].tile_count
                      = regions[k].end_tile - regions[k].start_tile + 1
                 /\ regions[k].tile_count >= 16
                 /\ <<regions[k].start_tile, regions[k].end_tile>> \in LongRuns
            /\ \A k \in 1..(Len(regions) - 1) :
                 regions[k].end_tile < regions[k + 1].start_tile
            /\ \A r \in LongRuns : \E k \in 1..Len(regions) :
                 r = <<regions[k].start_tile, regions[k].end_tile>>
            /\ \E total \in 0..Len(arg.tiles) :
                 /\ total = ret.estimated_charset_size
                 /\ total = Cardinality(UNION { r[1]..r[2] : r \in LongRuns })

C21_Reached ==
    /\ pc = "font_regions"
    /\ Len(ret.font_regions) = 2
    /\ ret.font_regions[2].end_tile = Len(arg.tiles) - 1
    /\ ret.estimated_charset_size = 32

-----------------------------------------------------------------------------
(* GameTranslator.translate_batch, translate and _llm_translate_with_retry.
   The external call of _llm_translate either returns or raises, which is
   the choice of the environment at every attempt.  The translation memory
   (TranslationMemory.memory) is kept in translated_strings, the results
   list of translate_batch in results, the position in texts in idx, the
   TranslationConfig in config, the locals of the running call in arg and
   the counters of translate_batch in ret.  Confidences are in hundredths.
   arg.calls counts the calls of _llm_translate made for the running text. *)

\* the store at the end of translate
store_always(memory, text, result) == Put(memory, text, result.translated)

\* translate: "Store in memory for future use"
store_result(memory, text, result) ==
    IF result.confidence > 50 THEN Put(memory, text, result.translated)
    ELSE memory

\* translate returns result to the loop of translate_batch, which appends
\* it and counts it; stored says whether translate reached the store
ReturnResult(result, stored) ==
    /\ results' = Append(results, result)
    /\ translated_strings' =
         IF stored THEN store_result(translated_strings, result.original, result)
         ELSE translated_strings
    /\ ret' = IF result.confidence > 50
              THEN [ret EXCEPT !.success_count = @ + 1]
              ELSE [ret EXCEPT !.failure_count = @ + 1]
    /\ idx' = idx + 1
    /\ pc' = "batch"

MaxTexts == 3
MaxRetries == 3

TranslateInit ==
    /\ pc = "batch" /\ table = EmptyTable /\ line_num = 0
    /\ \E n \in 1..MaxTexts : \E texts \in [1..n -> {"A", "B", "G", " "}] :
         arg = [op |-> "translate_batch", texts |-> texts]
    /\ ret = [success_count |-> 0, failure_count |-> 0, returned |-> FALSE]
    /\ original_data = <<>> /\ rom_data = <<>>
    /\ translated_strings = <<>> /\ results = <<>> /\ idx = 0
    /\ \E max_retries \in 0..MaxRetries, mock_mode \in BOOLEAN :
         config = [max_retries |-> max_retries, mock_mode |-> mock_mode]
    /\ IdlePointers

\* translate(text, context) up to the first call of _llm_translate
Translate ==
    LET text == arg.texts[idx + 1]
        glossary == << <<"G", "g">> >>
        Result(translated, confidence, retries) ==
            [original |-> text, translated |-> translated,
             confidence |-> confidence, retries |-> retries, calls |-> 0]
    IN  /\ pc = "batch" /\ idx < Len(arg.texts)
        /\ IF text = " "
           THEN ReturnResult(Result(text, 100, 0), FALSE) /\ UNCHANGED arg
           ELSE IF Has(glossary, text)
           THEN ReturnResult(Result(Get(glossary, text), 100, 0), FALSE)
                /\ UNCHANGED arg
           ELSE IF Has(translated_strings, text)
           THEN ReturnResult(Result(Get(translated_strings, text), 95, 0), FALSE)
                /\ UNCHANGED arg
           ELSE IF config.mock_mode
           THEN ReturnResult(Result("[" \o text \o "]", 70, 0), TRUE)
                /\ UNCHANGED arg
           ELSE IF config.max_retries = 0
           THEN ReturnResult(Result("[TRANSLATION ERROR: None]", 0, 0), TRUE)
                /\ UNCHANGED arg
           ELSE /\ pc' = "retry"
                /\ arg' = [op |-> "translate", texts |-> arg.texts,
                           text |-> text, attempt |-> 0, calls |-> 0]
                /\ UNCHANGED <<results, translated_strings, ret, idx>>
        /\ UNCHANGED <<table, line_num, original_data, rom_data, config,
                       ptrVars>>

\* one pass of the for loop of _llm_translate_with_retry: _llm_translate
\* returns, or raises an Exception
Attempt(raises) ==
    /\ pc = "retry"
    /\ IF ~raises
       THEN ReturnResult([original |-> arg.text, translated |-> "x",
                          confidence |-> 90, retries |-> arg.attempt,
                          calls |-> arg.calls + 1], TRUE)
            /\ arg' = [op |-> "translate_batch", texts |-> arg.texts]
       ELSE IF arg.attempt + 1 < config.max_retries
       THEN /\ arg' = [arg EXCEPT !.attempt = @ + 1, !.calls = @ + 1]
            /\ UNCHANGED <<pc, results, translated_strings, ret, idx>>
       ELSE ReturnResult([original |-> arg.text,
                          translated |-> "[TRANSLATION ERROR: e]",
                          confidence |-> 0, retries |-> config.max_retries,
                          calls |-> arg.calls + 1], TRUE)
            /\ arg' = [op |-> "translate_batch", texts |-> arg.texts]
    /\ UNCHANGED <<table, line_num, original_data, rom_data, config, ptrVars>>

\* translate_batch returns its BatchTranslationResult to run_translation
FinishBatch ==
    /\ pc = "batch" /\ idx = Len(arg.texts)
    /\ pc' = "translated"
    /\ ret' = [ret EXCEPT !.returned = TRUE]
    /\ UNCHANGED <<table, line_num, arg, reinjVars>>

TranslateNext ==
    \/ Translate
    \/ \E raises \in BOOLEAN : Attempt(raises)
    \/ FinishBatch

SpecTranslate == TranslateInit /\ [][TranslateNext]_vars

\* a result the retry loop returned after every one of its calls had failed
IsPlaceholder(result) == result.confidence = 0

\* C23: when every attempt fails the retry loop has made exactly max_retries
\* calls and returns a placeholder of confidence 0 without raising; the
\* placeholder is not stored in the translation memory, and the batch goes
\* on: it returns one result for each text.
C23_RetryThenPlaceholder ==
    /\ \A k \in 1..Len(results) :
         IsPlaceholder(results[k]) =>
            /\ results[k].calls = config.max_retries
            /\ results[k].retries = config.max_retries
            /\ \A j \in 1..Len(translated_strings) :
                 translated_strings[j][2] # results[k].translated
    /\ pc = "retry" => arg.calls < config.max_retries
    /\ Len(results) = idx
    /\ pc = "translated" =>
         /\ Len(results) = Len(arg.texts)
         /\ \A k \in 1..Len(results) : results[k].original = arg.texts[k]
         /\ ret.success_count + ret.failure_count = Len(arg.texts)

C23_Reached ==
    /\ pc = "translated"
    /\ config.max_retries = 2
    /\ Len(results) = 3
    /\ IsPlaceholder(results[1])
    /\ results[2].confidence = 90
    /\ results[2].original # results[1].original

-----------------------------------------------------------------------------
(* TranslationPipeline.run_full_pipeline.  What a stage does inside its try
   block either completes or raises an Exception, which is the choice made
   at every stage here ("" stands for no exception, any other value for
   str(e)).  The project state (status, validation_results) is kept in
   config, the errors logged by add_error in results, the PipelineResult of
   the last stage in ret, the argument skip_validation in arg, the number
   of entries of project.translations in idx, and
   placements is the history of the stages that were started, each with its
   outcome. *)

MaxChecks == 2

PipelineInit ==
    /\ pc = "extraction" /\ table = EmptyTable /\ line_num = 0
    /\ \E skip_validation \in BOOLEAN :
         arg = [op |-> "run_full_pipeline", skip_validation |-> skip_validation]
    /\ ret = NoCall
    /\ original_data = <<>> /\ rom_data = <<>> /\ translated_strings = <<>>
    /\ results = <<>> /\ idx = 0
    /\ config = [status |-> "created", validation_results |-> "None"]
    /\ IdlePointers

\* a stage has run: its PipelineResult goes to run_full_pipeline, which
\* returns it when it is a failure and goes on to the next stage otherwise;
\* in its except branch the stage logs the error
StageDone(stage, error, state, next) ==
    /\ ret' = [success |-> error = "", stage |-> stage, error |-> error]
    /\ config' = state
    /\ results' = IF error = "" THEN results
                  ELSE Append(results, <<stage, error>>)
    /\ placements' = Append(placements, [stage |-> stage, success |-> error = ""])
    /\ pc' = IF error = "" THEN next ELSE "returned"
    /\ UNCHANGED <<table, line_num, arg, original_data, rom_data,
                   translated_strings, pointers,
                   new_strings_data, address_changes, current_address>>

\* run_extraction, which fills project.translations with the n strings
\* extracted
RunExtraction(error, n) ==
    /\ pc = "extraction"
    /\ idx' = IF error = "" THEN n ELSE idx
    /\ StageDone("extraction", error,
                 [config EXCEPT !.status =
                    IF error = "" THEN "extracting" ELSE "failed"],
                 "translation")

\* run_translation
RunTranslation(error) ==
    /\ pc = "translation"
    /\ UNCHANGED idx
    /\ StageDone("translation", error,
                 [config EXCEPT !.status =
                    IF error = "" THEN "translating" ELSE "failed"],
                 "reinjection")

\* run_reinjection(skip_validation=skip_validation); the validation
\* results reinject_into_rom returned hold total checks, passed of them
\* passed
RunReinjection(error, passed, total) ==
    /\ pc = "reinjection"
    /\ UNCHANGED idx
    /\ StageDone("reinjection", error,
                 IF error # "" THEN [config EXCEPT !.status = "failed"]
                 ELSE IF arg.skip_validation
                 THEN [config EXCEPT !.status = "reinjecting"]
                 ELSE [status |-> "validating",
                       validation_results |->
                           [passed |-> passed, total |-> total]],
                 "patch_generation")

\* run_patch_generation, and "Mark complete" when it succeeded: the result
\* returned is then the one of stage "complete"
RunPatchGeneration(error) ==
    /\ pc = "patch_generation"
    /\ IF error # ""
       THEN UNCHANGED idx
            /\ StageDone("patch_generation", error, config, "returned")
       ELSE /\ ret' = [success |-> TRUE, stage |-> "complete", error |-> ""]
            /\ config' = [config EXCEPT !.status = "completed"]
            /\ placements' = Append(placements, [stage |-> "patch_generation",
                                                 success |-> TRUE])
            /\ pc' = "returned"
            /\ UNCHANGED <<table, line_num, arg, original_data, rom_data,
                           translated_strings, results, idx, pointers,
                           new_strings_data, address_changes, current_address>>

PipelineNext ==
    \E error \in {"", "ValueError", "FileNotFoundError"} :
        \/ \E n \in 0..MaxTexts : RunExtraction(error, n)
        \/ RunTranslation(error)
        \/ \E total \in 0..MaxChecks : \E passed \in 0..total :
              RunReinjection(error, passed, total)
        \/ RunPatchGeneration(error)

SpecPipeline == PipelineInit /\ [][PipelineNext]_vars

StageOrder == <<"extraction", "translation", "reinjection", "patch_generation">>

\* C26: the stages start in the order extraction, translation, reinjection,
\* patch generation, each only after every earlier one succeeded; when the
\* pipeline has returned the status is completed exactly if the result is a
\* success, and failed whenever the result is a failure.
C26_StatusMatchesResult ==
    /\ Len(placements) <= 4
    /\ \A k \in 1..Len(placements) :
         /\ placements[k].stage = StageOrder[k]
         /\ \A j \in 1..(k - 1) : placements[j].success
    /\ pc = "returned" =>
         /\ config.status = "completed" <=> ret.success
         /\ ~ret.success => config.status = "failed"

C26_Reached ==
    /\ pc = "returned"
    /\ Len(placements) = 4
    /\ ~ret.success

====
